---- MODULE Spec2Model ----
(***************************************************************************)
(* The JSON recovery engine of pdf_visual_extraction: the two parse entry  *)
(* points parse_with_fallback (json_repair_utils.py) and                   *)
(* parse_vlm_json_response (robust_json_parser.py), with the extractors,   *)
(* repairers, balancer and partial-data extractors they call.              *)
(*                                                                         *)
(* A Python str is a sequence of characters; a character is a string of    *)
(* length one.  Characters TLA+ cannot write are named: "^A" is \x01,      *)
(* "^H" is \x08 (backspace), "^K" is \x0B, "^?" is \x7F, and "bq" is the   *)
(* backquote (\x60), which a TLA+ string cannot hold.                      *)
(***************************************************************************)
EXTENDS Integers, Sequences, FiniteSets, TLC

VARIABLES
    impl,        \* which entry point is called: "fallback" or "vlm"
    raw,         \* response_text, the argument of the call
    pc,          \* position of the call in the entry point
    cand,        \* json_str: the candidate the extractor returned
    fixed,       \* repaired / cleaned_json: the candidate after repair
    tier,        \* the extraction strategy that supplied the candidate
    result,      \* the value the call returns (JNone until it returns)
    path,        \* how result was produced
    runs,        \* per stage, how many times it ran in this call
    attempts,    \* the outcome of each json.loads call on a candidate, in order
    partial_arg, \* the text handed to the partial-data extractor
    log,         \* the logging calls made, in order
    visual_data,    \* the argument of extract_tables_from_visual
    page_index,     \* how many pages its loop has gone through
    tables_by_page, \* its dict of the same name, returned at the end
    text_data,      \* the dict passed to inject_tables_into_text; its pages
                    \* list holds references to the page dicts
    heap,           \* the page dicts, by reference
    text_input,     \* the value of text_data, pages included, when passed
    enhanced_data,  \* the local of inject_tables_into_text, which it returns
    image_files,    \* process_images_openai: the pages that have an image
    futures,        \* its tasks: per page, how far the worker is and its outcome
    results,        \* its dict of the same name, returned at the end
    options,        \* run_pdf_visual_extraction: force, export_md, API key set
    files,          \* the output files that exist
    skip_steps,     \* what check_existing_files returned
    executed,       \* the steps the run has executed
    final_data,     \* its local of the same name
    calls        \* the parse calls in flight at once, each with its locals

parse_vars == <<impl, raw, pc, cand, fixed, tier, result, path, runs, attempts,
                partial_arg, log>>
table_vars == <<visual_data, page_index, tables_by_page,
                text_data, heap, text_input, enhanced_data>>
inject_vars == <<text_data, heap, text_input, enhanced_data>>

image_vars == <<image_files, futures, results>>
pipeline_vars == <<options, files, skip_steps, executed, final_data>>

vars == <<parse_vars, table_vars, calls, image_vars, pipeline_vars>>

-----------------------------------------------------------------------------
(* Characters and character classes *)

Min(S) == CHOOSE x \in S : \A y \in S : x <= y
Max(S) == CHOOSE x \in S : \A y \in S : x >= y

\* string.whitespace of json.decoder.WHITESPACE: [ \t\n\r]*
IsJsonWs(c) == c \in {" ", "\t", "\n", "\r"}

\* \s of the re module and the characters str.strip() removes
IsReWs(c) == c \in {" ", "\t", "\n", "\r", "\f", "^K"}

\* [\x00-\x08\x0B\x0C\x0E-\x1F\x7F]
IsCtrlClass(c) == c \in {"^A", "^H", "^K", "\f", "^?"}

\* ord(char) < 32: the characters a strict JSON string may not hold raw
IsBelow32(c) == c \in {"^A", "^H", "^K", "\f", "\t", "\n", "\r"}

Digits == {"0", "1", "2", "3", "4", "5", "6", "7", "8", "9"}

DigitVal(c) ==
    CASE c = "0" -> 0 [] c = "1" -> 1 [] c = "2" -> 2 [] c = "3" -> 3
      [] c = "4" -> 4 [] c = "5" -> 5 [] c = "6" -> 6 [] c = "7" -> 7
      [] c = "8" -> 8 [] c = "9" -> 9

HexDigits == Digits \cup {"a", "b", "c", "d", "e", "f", "A", "B", "C", "D", "E", "F"}

\* c.lower(), on the ASCII letters
Lower(c) ==
    CASE c = "" -> c
      [] c = "A" -> "a" [] c = "B" -> "b" [] c = "C" -> "c" [] c = "D" -> "d"
      [] c = "E" -> "e" [] c = "F" -> "f" [] c = "G" -> "g" [] c = "H" -> "h"
      [] c = "I" -> "i" [] c = "J" -> "j" [] c = "K" -> "k" [] c = "L" -> "l"
      [] c = "M" -> "m" [] c = "N" -> "n" [] c = "O" -> "o" [] c = "P" -> "p"
      [] c = "Q" -> "q" [] c = "R" -> "r" [] c = "S" -> "s" [] c = "T" -> "t"
      [] c = "U" -> "u" [] c = "V" -> "v" [] c = "W" -> "w" [] c = "X" -> "x"
      [] c = "Y" -> "y" [] c = "Z" -> "z"
      [] OTHER -> c

\* s[i:j] in Python's 0-based half-open terms is SubSeq(s, i+1, j); the model
\* indexes from 1 throughout.
Slice(s, i, j) == IF i > j THEN <<>> ELSE SubSeq(s, i, j)

\* s.startswith(p, i-1)
StartsAt(s, i, p) ==
    /\ i + Len(p) - 1 <= Len(s)
    /\ \A k \in 1..Len(p) : s[i + k - 1] = p[k]

\* s.count(c)
Count(s, c) == Cardinality({i \in 1..Len(s) : s[i] = c})

\* c * n
Repeat(c, n) == [i \in 1..n |-> c]

\* s.find(c): the first index of c, 0 when there is none (Python: -1)
Find(s, c) ==
    LET I == {i \in 1..Len(s) : s[i] = c} IN IF I = {} THEN 0 ELSE Min(I)

\* s.rfind(c): the last index of c, 0 when there is none (Python: -1)
RFind(s, c) ==
    IF \A i \in 1..Len(s) : s[i] # c THEN 0
    ELSE CHOOSE i \in 1..Len(s) : s[i] = c /\ \A j \in (i + 1)..Len(s) : s[j] # c

\* the first index >= i at which \s* stops matching
RECURSIVE SkipReWs(_, _)
SkipReWs(s, i) ==
    IF i <= Len(s) /\ IsReWs(s[i]) THEN SkipReWs(s, i + 1) ELSE i

\* str.strip()
Strip(s) ==
    LET K == {i \in 1..Len(s) : ~IsReWs(s[i])}
    IN  IF K = {} THEN <<>>
        ELSE SubSeq(s, Min(K), CHOOSE i \in K : \A j \in (i + 1)..Len(s) : j \notin K)

-----------------------------------------------------------------------------
(* json.loads: the values and the decoder *)

JNone == [k |-> "none"]
JNull == [k |-> "null"]
JBool(b) == [k |-> "bool", b |-> b]
JStr(s) == [k |-> "str", s |-> s]
JArr(a) == [k |-> "arr", a |-> a]
JObj(o) == [k |-> "obj", o |-> o]

\* a number m * 10^e, with m free of trailing zeros, so that 1 = 1.0 = 10e-1
RECURSIVE JNum(_, _)
JNum(m, e) ==
    IF m = 0 THEN [k |-> "num", m |-> 0, e |-> 0]
    ELSE IF m % 10 = 0 THEN JNum(m \div 10, e + 1)
    ELSE [k |-> "num", m |-> m, e |-> e]

\* float('nan'), float('inf'), float('-inf'), which json.loads accepts
JSpecial(w) == [k |-> "special", w |-> w]

Fail == [ok |-> FALSE, v |-> JNone, i |-> 0]
Ok(v, i) == [ok |-> TRUE, v |-> v, i |-> i]

\* the first index >= i that holds no JSON whitespace
RECURSIVE SkipJsonWs(_, _)
SkipJsonWs(s, i) ==
    IF i <= Len(s) /\ IsJsonWs(s[i]) THEN SkipJsonWs(s, i + 1) ELSE i

\* the end of the run of digits that starts at i (i itself when there is none)
RECURSIVE DigitsEnd(_, _)
DigitsEnd(s, i) ==
    IF i <= Len(s) /\ s[i] \in Digits THEN DigitsEnd(s, i + 1) ELSE i

\* the value of the digits s[i..j-1] appended to acc
RECURSIVE DigitsVal(_, _, _, _)
DigitsVal(s, i, j, acc) ==
    IF i >= j THEN acc ELSE DigitsVal(s, i + 1, j, acc * 10 + DigitVal(s[i]))

\* NUMBER_RE = (-?(?:0|[1-9]\d*))(\.\d+)?([eE][-+]?\d+)? matched at i, in four
\* steps: the sign, the integer digits, the fraction, the exponent.  neg is
\* the sign read, m the digits read so far as an integer, e the power of ten.

\* the digits of the exponent start at x, after the e at i2 and its sign
ScanExponentDigits(s, i2, x, neg, m, e) ==
    IF DigitsEnd(s, x) = x THEN Ok(JNum(IF neg THEN -m ELSE m, e), i2)
    ELSE Ok(JNum(IF neg THEN -m ELSE m,
                 e + (IF s[x - 1] = "-" THEN -1 ELSE 1) * DigitsVal(s, x, DigitsEnd(s, x), 0)),
            DigitsEnd(s, x))

ScanExponent(s, i2, neg, m, e) ==
    IF i2 <= Len(s) /\ s[i2] \in {"e", "E"}
    THEN ScanExponentDigits(s, i2,
             IF i2 + 1 <= Len(s) /\ s[i2 + 1] \in {"-", "+"} THEN i2 + 2 ELSE i2 + 1,
             neg, m, e)
    ELSE Ok(JNum(IF neg THEN -m ELSE m, e), i2)

\* the integer digits are s[i0..i1-1]
ScanFraction(s, i0, i1, neg) ==
    IF i1 <= Len(s) /\ s[i1] = "." /\ DigitsEnd(s, i1 + 1) > i1 + 1
    THEN ScanExponent(s, DigitsEnd(s, i1 + 1), neg,
             DigitsVal(s, i1 + 1, DigitsEnd(s, i1 + 1), DigitsVal(s, i0, i1, 0)),
             -(DigitsEnd(s, i1 + 1) - i1 - 1))
    ELSE ScanExponent(s, i1, neg, DigitsVal(s, i0, i1, 0), 0)

ScanInteger(s, i0, neg) ==
    IF i0 <= Len(s) /\ s[i0] = "0" THEN ScanFraction(s, i0, i0 + 1, neg)
    ELSE IF DigitsEnd(s, i0) = i0 THEN Fail
    ELSE ScanFraction(s, i0, DigitsEnd(s, i0), neg)

ScanNumber(s, i) ==
    IF i <= Len(s) /\ s[i] = "-" THEN ScanInteger(s, i + 1, TRUE)
    ELSE ScanInteger(s, i, FALSE)

\* the character an escape \c stands for (BACKSLASH of json.decoder)
Unescape(c) ==
    CASE c = "n" -> "\n" [] c = "t" -> "\t" [] c = "r" -> "\r" [] c = "f" -> "\f"
      [] c = "b" -> "^H" [] OTHER -> c

\* py_scanstring(s, end, strict=True), from the character after the opening
\* quote: the decoded text and the index after the closing quote
RECURSIVE ScanString(_, _, _)
ScanString(s, i0, acc0) ==
    LET \* i is the index of the next terminator: a quote, a backslash or a
        \* control character (Len(s)+1 when there is none)
        At(i) ==
            IF i > Len(s) THEN Fail
            ELSE IF s[i] = "\"" THEN Ok(JStr(acc0 \o Slice(s, i0, i - 1)), i + 1)
            ELSE IF IsBelow32(s[i]) THEN Fail
            ELSE IF i + 1 > Len(s) THEN Fail
            ELSE IF s[i + 1] = "u"
                 THEN IF i + 5 <= Len(s) /\ \A d \in 2..5 : s[i + d] \in HexDigits
                      THEN ScanString(s, i + 6,
                               Append(acc0 \o Slice(s, i0, i - 1),
                                      "\\u" \o s[i+2] \o s[i+3] \o s[i+4] \o s[i+5]))
                      ELSE Fail
            ELSE IF s[i + 1] \in {"\"", "\\", "/", "b", "f", "n", "r", "t"}
                 THEN ScanString(s, i + 2,
                          Append(acc0 \o Slice(s, i0, i - 1), Unescape(s[i + 1])))
            ELSE Fail
    IN  At(Min({j \in i0..Len(s) : s[j] \in {"\"", "\\"} \/ IsBelow32(s[j])}
               \cup {Len(s) + 1}))

\* scanner.py_make_scanner._scan_once with JSONObject and JSONArray, which
\* call each other.  mode "value": the value that starts at i (_scan_once).
\* mode "members": the members of an object from the key at i on, acc the
\* pairs read so far, a later pair with the same key replacing the earlier
\* (JSONObject, dict(pairs)).  mode "items": the items of an array from the
\* value at i on, acc the values read so far (JSONArray).
RECURSIVE Scan(_, _, _, _)
Scan(mode, s, i, acc) ==
    IF mode = "value" THEN
        IF i > Len(s) THEN Fail
        ELSE LET c == s[i]
                 Object(j) ==
                     IF j <= Len(s) /\ s[j] = "}" THEN Ok(JObj(<<>>), j + 1)
                     ELSE Scan("members", s, j, <<>>)
                 Array(j) ==
                     IF j <= Len(s) /\ s[j] = "]" THEN Ok(JArr(<<>>), j + 1)
                     ELSE Scan("items", s, j, <<>>)
             IN
             CASE c = "\"" -> ScanString(s, i + 1, <<>>)
               [] c = "{" -> Object(SkipJsonWs(s, i + 1))
               [] c = "[" -> Array(SkipJsonWs(s, i + 1))
               [] c = "n" -> IF StartsAt(s, i, <<"n","u","l","l">>)
                             THEN Ok(JNull, i + 4) ELSE Fail
               [] c = "t" -> IF StartsAt(s, i, <<"t","r","u","e">>)
                             THEN Ok(JBool(TRUE), i + 4) ELSE Fail
               [] c = "f" -> IF StartsAt(s, i, <<"f","a","l","s","e">>)
                             THEN Ok(JBool(FALSE), i + 5) ELSE Fail
               [] c = "N" -> IF StartsAt(s, i, <<"N","a","N">>)
                             THEN Ok(JSpecial("nan"), i + 3) ELSE Fail
               [] c = "I" -> IF StartsAt(s, i, <<"I","n","f","i","n","i","t","y">>)
                             THEN Ok(JSpecial("inf"), i + 8) ELSE Fail
               [] c = "-" /\ StartsAt(s, i, <<"-","I","n","f","i","n","i","t","y">>) ->
                    Ok(JSpecial("-inf"), i + 9)
               [] OTHER -> ScanNumber(s, i)
    ELSE IF mode = "members" THEN
        IF i > Len(s) \/ s[i] # "\"" THEN Fail
        ELSE LET AfterValue(o2, d) ==
                     IF d > Len(s) THEN Fail
                     ELSE IF s[d] = "}" THEN Ok(JObj(o2), d + 1)
                     ELSE IF s[d] = "," THEN Scan("members", s, SkipJsonWs(s, d + 1), o2)
                     ELSE Fail
                 Value(key, val) ==
                     IF ~val.ok THEN Fail
                     ELSE AfterValue((key.v.s :> val.v) @@ acc, SkipJsonWs(s, val.i))
                 AfterKey(key, c) ==
                     IF c > Len(s) \/ s[c] # ":" THEN Fail
                     ELSE Value(key, Scan("value", s, SkipJsonWs(s, c + 1), <<>>))
                 Key(key) ==
                     IF ~key.ok THEN Fail ELSE AfterKey(key, SkipJsonWs(s, key.i))
             IN  Key(ScanString(s, i + 1, <<>>))
    ELSE
        LET AfterItem(a2, d) ==
                IF d > Len(s) THEN Fail
                ELSE IF s[d] = "]" THEN Ok(JArr(a2), d + 1)
                ELSE IF s[d] = "," THEN Scan("items", s, SkipJsonWs(s, d + 1), a2)
                ELSE Fail
            Item(val) ==
                IF ~val.ok THEN Fail
                ELSE AfterItem(Append(acc, val.v), SkipJsonWs(s, val.i))
        IN  Item(Scan("value", s, i, <<>>))

\* json.loads(s): ok is FALSE where json.JSONDecodeError is raised
JsonLoads(s) ==
    LET End(r) == IF r.ok /\ SkipJsonWs(s, r.i) = Len(s) + 1 THEN r ELSE Fail
    IN  End(Scan("value", s, SkipJsonWs(s, 1), <<>>))

\* bool(x) of a decoded value: what `if result:` tests
Truthy(v) ==
    CASE v.k = "none" -> FALSE
      [] v.k = "null" -> FALSE
      [] v.k = "bool" -> v.b
      [] v.k = "num" -> v.m # 0
      [] v.k = "str" -> v.s # <<>>
      [] v.k = "arr" -> v.a # <<>>
      [] v.k = "obj" -> DOMAIN v.o # {}
      [] OTHER -> TRUE

-----------------------------------------------------------------------------
(* Searching *)

\* the first index >= i whose character is in C, Len(s)+1 when there is none
NextOf(s, i, C) ==
    LET I == {j \in i..Len(s) : s[j] \in C} IN IF I = {} THEN Len(s) + 1 ELSE Min(I)

\* the first index >= i at which p occurs in s, 0 when it occurs nowhere
NextOccurrence(s, i, p) ==
    LET I == {j \in i..Len(s) : StartsAt(s, j, p)} IN IF I = {} THEN 0 ELSE Min(I)

\* re.sub(r'[\x00-\x08\x0B\x0C\x0E-\x1F\x7F]', '', s)
RemoveCtrlClass(s) == SelectSeq(s, LAMBDA c : ~IsCtrlClass(c))

\* re.sub(r'[\x00-\x1F\x7F]', '', s)
RemoveBelow32(s) == SelectSeq(s, LAMBDA c : ~(IsBelow32(c) \/ c = "^?"))

\* NoneStr stands for Python's None where a str is expected
NoneStr == <<"None">>

-----------------------------------------------------------------------------
(* json_repair_utils.py *)

\* Strategy 2, re.sub(r',(\s*[}\]])', r'\1', s): every comma followed by
\* optional whitespace and a closer is dropped; a match holds no other comma,
\* so the matches never overlap
IsTrailingComma(s, i) ==
    /\ s[i] = ","
    /\ LET j == SkipReWs(s, i + 1) IN j <= Len(s) /\ s[j] \in {"}", "]"}

\* s without the characters at the indices in D
RECURSIVE RemoveAt(_, _)
RemoveAt(s, D) ==
    IF D = {} THEN s
    ELSE LET i == Max(D) IN
         RemoveAt(Slice(s, 1, i - 1) \o Slice(s, i + 1, Len(s)), D \ {i})

FixTrailingCommas(s) ==
    RemoveAt(s, {i \in 1..Len(s) : IsTrailingComma(s, i)})

\* value.replace('"', '\\"')
RECURSIVE EscapeQuotes(_)
EscapeQuotes(v) ==
    IF v = <<>> THEN <<>>
    ELSE (IF Head(v) = "\"" THEN <<"\\", "\"">> ELSE <<Head(v)>>) \o EscapeQuotes(Tail(v))

\* fix_string_quotes(match): the replacement of one key-value match
fix_string_quotes(key, value) ==
    LET value2 == IF (\E n \in 1..Len(value) : value[n] = "\"") /\ ~StartsAt(value, 1, <<"\"">>)
                  THEN EscapeQuotes(value) ELSE value
    IN  <<"\"">> \o key \o <<"\"", ":", " ", "\"">> \o value2 \o <<"\"">>

\* the pattern "([^"]+)"\s*:\s*"([^"]*(?:\\.[^"]*)*)" tried at index i:
\* [^"]* stops at the next quote and the group (?:\\.[^"]*)* cannot start
\* there, so the match ends at the first quote after the value's opening one.
\* e is the last index of the match, 0 when the pattern does not match at i.
KeyValueMatch(s, i) ==
    LET none == [e |-> 0, key |-> <<>>, value |-> <<>>] IN
    IF i > Len(s) \/ s[i] # "\"" THEN none
    ELSE LET q1 == NextOf(s, i + 1, {"\""}) IN
         IF q1 > Len(s) \/ q1 = i + 1 THEN none
         ELSE LET c == SkipReWs(s, q1 + 1) IN
              IF c > Len(s) \/ s[c] # ":" THEN none
              ELSE LET v0 == SkipReWs(s, c + 1) IN
                   IF v0 > Len(s) \/ s[v0] # "\"" THEN none
                   ELSE LET q2 == NextOf(s, v0 + 1, {"\""}) IN
                        IF q2 > Len(s) THEN none
                        ELSE [e |-> q2, key |-> Slice(s, i + 1, q1 - 1),
                              value |-> Slice(s, v0 + 1, q2 - 1)]

\* fix_unescaped_quotes(json_str): re.sub over the leftmost non-overlapping
\* matches, scanning from i with acc the output so far
RECURSIVE FixQuotesFrom(_, _, _)
FixQuotesFrom(s, i, acc) ==
    LET I == {q \in i..Len(s) : s[q] = "\"" /\ KeyValueMatch(s, q).e # 0} IN
    IF I = {} THEN acc \o Slice(s, i, Len(s))
    ELSE LET q == Min(I)
             m == KeyValueMatch(s, q)
         IN  FixQuotesFrom(s, m.e + 1,
                 acc \o Slice(s, i, q - 1) \o fix_string_quotes(m.key, m.value))

fix_unescaped_quotes(json_str) == FixQuotesFrom(json_str, 1, <<>>)

\* fix_incomplete_structures appending one closer where several are missing
fix_incomplete_structures_single(json_str) ==
    LET s1 == IF Count(json_str, "{") > Count(json_str, "}")
              THEN Append(json_str, "}") ELSE json_str
    IN  IF Count(json_str, "[") > Count(json_str, "]") THEN Append(s1, "]") ELSE s1

\* fix_incomplete_structures(json_str): the balancer
fix_incomplete_structures(json_str) ==
    LET open_braces == Count(json_str, "{")
        close_braces == Count(json_str, "}")
        open_brackets == Count(json_str, "[")
        close_brackets == Count(json_str, "]")
        s1 == IF open_braces > close_braces
              THEN json_str \o Repeat("}", open_braces - close_braces) ELSE json_str
    IN  IF open_brackets > close_brackets
        THEN s1 \o Repeat("]", open_brackets - close_brackets) ELSE s1

\* the strategies of repair_vlm_json in order; Strategy 5 substitutes true,
\* false and null for themselves and changes nothing
RepairStrategies(json_str) ==
    fix_incomplete_structures(
        fix_unescaped_quotes(
            FixTrailingCommas(
                RemoveCtrlClass(json_str))))

\* repair_vlm_json(json_str): s is the string returned, NoneStr for None;
\* how is "as_is" when the argument parsed unchanged, "repaired" when only the
\* repaired string parsed
repair_vlm_json(json_str) ==
    LET Second(rep) ==
            IF JsonLoads(rep).ok THEN [s |-> rep, how |-> "repaired"]
            ELSE [s |-> NoneStr, how |-> "none"]
    IN  IF JsonLoads(json_str).ok THEN [s |-> json_str, how |-> "as_is"]
        ELSE Second(RepairStrategies(json_str))

\* the fence delimiter and the fence with the json language tag
Fence == <<"bq", "bq", "bq">>
FenceJson == <<"bq", "bq", "bq", "j", "s", "o", "n">>

\* re.findall(open + r'\s*(.*?)\s*' + fence, s, re.DOTALL) from index i on: the
\* group of every match, in order.  The group starts after the whitespace
\* that follows the opener and ends before the whitespace that precedes the
\* first closing fence.
RECURSIVE FenceMatches(_, _, _)
FenceMatches(s, i, open) ==
    LET a == NextOccurrence(s, i, open) IN
    IF a = 0 THEN <<>>
    ELSE LET c0 == SkipReWs(s, a + Len(open))
             q == NextOccurrence(s, c0, Fence)
         IN  IF q = 0 THEN FenceMatches(s, a + 1, open)
             ELSE LET K == {n \in c0..(q - 1) : ~IsReWs(s[n])}
                      body == IF K = {} THEN <<>>
                              ELSE SubSeq(s, c0,
                                       CHOOSE n \in K : \A j \in (n + 1)..(q - 1) : j \notin K)
                  IN  <<body>> \o FenceMatches(s, q + 3, open)

\* max(matches, key=len): the first of the longest
Longest(matches) ==
    LET n == Max({Len(matches[k]) : k \in 1..Len(matches)})
    IN  matches[Min({k \in 1..Len(matches) : Len(matches[k]) = n})]

\* extract_json_from_markdown(response_text)
extract_json_from_markdown(response_text) ==
    LET m1 == FenceMatches(response_text, 1, FenceJson)
        m2 == FenceMatches(response_text, 1, Fence)
    IN  IF m1 # <<>> THEN Strip(Longest(m1))
        ELSE IF m2 # <<>> THEN Strip(Longest(m2))
        ELSE NoneStr

-----------------------------------------------------------------------------
(* robust_json_parser.py *)

\* s with the characters ins put in before each index in D
RECURSIVE InsertBefore(_, _, _)
InsertBefore(s, D, ins) ==
    IF D = {} THEN s
    ELSE LET i == Max(D) IN
         InsertBefore(Slice(s, 1, i - 1) \o ins \o Slice(s, i, Len(s)), D \ {i}, ins)

\* 2. re.sub(r'(?<!\\)"(?=.*")', '\\"', s): a quote that no backslash
\* precedes and that another quote follows on the same line (. stops at a
\* newline) becomes backslash-quote
IsRewrittenQuote(s, i) ==
    /\ s[i] = "\""
    /\ (i = 1 \/ s[i - 1] # "\\")
    /\ LET q == NextOf(s, i + 1, {"\"", "\n"}) IN q <= Len(s) /\ s[q] = "\""

EscapeQuotesBeforeQuote(s) ==
    InsertBefore(s, {i \in 1..Len(s) : IsRewrittenQuote(s, i)}, <<"\\">>)

\* the pattern '([^']*)': tried at i: the index of the colon, 0 for no match
SingleQuotedKeyEnd(s, i) ==
    IF i > Len(s) \/ s[i] # "'" THEN 0
    ELSE LET q == NextOf(s, i + 1, {"'"}) IN
         IF q + 1 <= Len(s) /\ s[q + 1] = ":" THEN q + 1 ELSE 0

\* 3. re.sub(r"'([^']*)':", r'"\1":', s) from index i on
RECURSIVE FixSingleQuotesFrom(_, _, _)
FixSingleQuotesFrom(s, i, acc) ==
    LET I == {a \in i..Len(s) : SingleQuotedKeyEnd(s, a) # 0} IN
    IF I = {} THEN acc \o Slice(s, i, Len(s))
    ELSE LET a == Min(I)
             e == SingleQuotedKeyEnd(s, a)
         IN  FixSingleQuotesFrom(s, e + 1,
                 acc \o Slice(s, i, a - 1) \o <<"\"">> \o Slice(s, a + 1, e - 2)
                     \o <<"\"", ":">>)

\* 4. re.sub(r'(?<!\\)\n', '\\n', s): the replacement template is backslash-n,
\* which re expands to the newline character itself
FixNewlines(s) ==
    [i \in 1..Len(s) |->
        IF s[i] = "\n" /\ (i = 1 \/ s[i - 1] # "\\") THEN "\n" ELSE s[i]]

\* 5. re.sub(r'\\(?!["\\/bfnrt])', '\\\\', s): the replacement template is two
\* backslashes, which re expands to one backslash
FixBackslashes(s) ==
    [i \in 1..Len(s) |->
        IF /\ s[i] = "\\"
           /\ (i = Len(s) \/ s[i + 1] \notin {"\"", "\\", "/", "b", "f", "n", "r", "t"})
        THEN "\\" ELSE s[i]]

\* clean_json_string(json_str)
clean_json_string(json_str) ==
    LET s0 == RemoveCtrlClass(json_str)
        s1 == FixTrailingCommas(s0)
        s2 == EscapeQuotesBeforeQuote(s1)
        s3 == FixSingleQuotesFrom(s2, 1, <<>>)
        s4 == FixNewlines(s3)
        s5 == FixBackslashes(s4)
    IN  SelectSeq(s5, LAMBDA c : ~IsBelow32(c) \/ c \in {"\n", "\t"})

\* re.findall(r'\{.*\}', s, re.DOTALL): the one match runs from the first
\* opening brace to the last closing brace
BraceMatches(s) ==
    LET a == Find(s, "{")
        b == RFind(s, "}")
    IN  IF a # 0 /\ b > a THEN <<SubSeq(s, a, b)>> ELSE <<>>

\* an extractor that tries the braces before the fences
extract_json_from_response_braces_first(response_text) ==
    LET m1 == FenceMatches(response_text, 1, FenceJson)
        m2 == FenceMatches(response_text, 1, Fence)
        m3 == BraceMatches(response_text)
    IN  IF m3 # <<>> THEN Strip(Longest(m3))
        ELSE IF m1 # <<>> THEN Strip(Longest(m1))
        ELSE IF m2 # <<>> THEN Strip(Longest(m2))
        ELSE NoneStr

\* extract_json_from_response(response_text): the first component of the
\* tuple returned (the second is response_text itself)
extract_json_from_response(response_text) ==
    LET m1 == FenceMatches(response_text, 1, FenceJson)
        m2 == FenceMatches(response_text, 1, Fence)
        m3 == BraceMatches(response_text)
        json_start == Find(response_text, "{")
        json_end == RFind(response_text, "}") + 1
    IN  IF m1 # <<>> THEN Strip(Longest(m1))
        ELSE IF m2 # <<>> THEN Strip(Longest(m2))
        ELSE IF m3 # <<>> THEN Strip(Longest(m3))
        ELSE IF json_start # 0 /\ json_end > json_start
             THEN SubSeq(response_text, json_start, json_end - 1)
        ELSE NoneStr

\* the tier of extract_json_from_response that returned: 1 the json fence,
\* 2 any fence, 3 the braces, 0 none
ExtractTier(response_text) ==
    IF FenceMatches(response_text, 1, FenceJson) # <<>> THEN 1
    ELSE IF FenceMatches(response_text, 1, Fence) # <<>> THEN 2
    ELSE IF BraceMatches(response_text) # <<>> THEN 3
    ELSE 0

\* try_advanced_json_cleaning, Strategy 1: advanced_cleaning after the missing
\* closing braces and then the missing closing brackets are appended; the
\* brackets are counted in the string the braces were appended to
AdvancedBalance(json_str) ==
    LET Braces(open_braces, close_braces) ==
            IF open_braces > close_braces
            THEN json_str \o Repeat("}", open_braces - close_braces) ELSE json_str
        Brackets(a1, open_brackets, close_brackets) ==
            IF open_brackets > close_brackets
            THEN a1 \o Repeat("]", open_brackets - close_brackets) ELSE a1
        Balance(a1) == Brackets(a1, Count(a1, "["), Count(a1, "]"))
    IN  Balance(Braces(Count(json_str, "{"), Count(json_str, "}")))

\* try_advanced_json_cleaning(json_str, page_number): v is the value
\* returned (JNone for None), how the strategy that parsed
try_advanced_json_cleaning(json_str) ==
    LET Strategy2(r2) ==
            IF r2.ok THEN [v |-> r2.v, how |-> "stripped"]
            ELSE [v |-> JNone, how |-> "none"]
        Strategy1(advanced_cleaning, r1) ==
            IF r1.ok THEN [v |-> r1.v, how |-> "balanced"]
            ELSE Strategy2(JsonLoads(RemoveBelow32(advanced_cleaning)))
        Parse(advanced_cleaning) == Strategy1(advanced_cleaning, JsonLoads(advanced_cleaning))
    IN  Parse(AdvancedBalance(json_str))

-----------------------------------------------------------------------------
(* The partial-data extractors and the error fallback *)

K_page_analysis == <<"p","a","g","e","_","a","n","a","l","y","s","i","s">>
K_has_tables == <<"h","a","s","_","t","a","b","l","e","s">>
K_has_figures == <<"h","a","s","_","f","i","g","u","r","e","s">>
K_total_elements == <<"t","o","t","a","l","_","e","l","e","m","e","n","t","s">>
K_page_summary == <<"p","a","g","e","_","s","u","m","m","a","r","y">>
K_elements == <<"e","l","e","m","e","n","t","s">>
K_type == <<"t","y","p","e">>
K_bbox == <<"b","b","o","x">>
K_confidence == <<"c","o","n","f","i","d","e","n","c","e">>
K_description == <<"d","e","s","c","r","i","p","t","i","o","n">>
K_content == <<"c","o","n","t","e","n","t">>
K_structured_data == <<"s","t","r","u","c","t","u","r","e","d","_","d","a","t","a">>
K_raw_text == <<"r","a","w","_","t","e","x","t">>
K_summary == <<"s","u","m","m","a","r","y">>

W_table == <<"t","a","b","l","e">>
W_figure == <<"f","i","g","u","r","e">>
W_chart == <<"c","h","a","r","t">>
W_graph == <<"g","r","a","p","h">>
W_structured_data == K_structured_data
W_description == K_description

PartialSummary == <<"P","a","r","t","i","a","l"," ","d","a","t","a"," ","e","x","t","r","a","c","t","i","o","n"," ","d","u","e"," ","t","o"," ","J","S","O","N"," ","p","a","r","s","i","n","g"," ","e","r","r","o","r">>
PartialDescription == <<"E","x","t","r","a","c","t","e","d"," ","f","r","o","m"," ","p","a","r","t","i","a","l"," ","d","a","t","a">>
VlmElementSummary == <<"E","x","t","r","a","c","t","e","d"," ","f","r","o","m"," ","p","a","r","t","i","a","l"," ","d","a","t","a"," ","d","u","e"," ","t","o"," ","J","S","O","N"," ","p","a","r","s","i","n","g"," ","i","s","s","u","e","s">>
NoJsonMessage == <<"N","o"," ","J","S","O","N"," ","f","o","u","n","d"," ","i","n"," ","r","e","s","p","o","n","s","e">>
ErrorPrefix == <<"E","r","r","o","r",":"," ">>
Ellipsis == <<".", ".", ".">>

\* response_text[:n] is cut at these lengths in the element's raw_text
RawTextLimitFallback == 1000
RawTextLimitVlm == 500

\* ContainsCI without re.IGNORECASE: the word is looked for as written
ContainsCS(s, word) ==
    \E i \in 1..(Len(s) - Len(word) + 1) :
        \A n \in 1..Len(word) : s[i + n - 1] = word[n]

\* ContainsCI with the operands exchanged: the text is looked for in the word
ContainsCI_reversed(s, word) ==
    \E i \in 1..(Len(word) - Len(s) + 1) :
        \A n \in 1..Len(s) : word[i + n - 1] = Lower(s[n])

\* ContainsCI with re.match for re.search: the word is looked for at the start
ContainsCI_at_start(s, word) ==
    /\ Len(word) <= Len(s)
    /\ \A n \in 1..Len(word) : Lower(s[n]) = word[n]

\* re.search(word, s, re.IGNORECASE) finds a match
ContainsCI(s, word) ==
    \E i \in 1..(Len(s) - Len(word) + 1) :
        \A n \in 1..Len(word) : Lower(s[i + n - 1]) = word[n]

\* the pattern key["\']?\s*:\s*["\']([^"\']*)["\'] tried at i, ignoring case:
\* ok and the group
PairMatchAt(s, i, key) ==
    LET none == [ok |-> FALSE, g |-> <<>>]
        Q == {"\"", "'"}
    IN
    IF ~(i + Len(key) - 1 <= Len(s)
         /\ \A n \in 1..Len(key) : Lower(s[i + n - 1]) = key[n]) THEN none
    ELSE LET j == i + Len(key)
             j1 == IF j <= Len(s) /\ s[j] \in Q THEN j + 1 ELSE j
             c == SkipReWs(s, j1)
         IN  IF c > Len(s) \/ s[c] # ":" THEN none
             ELSE LET v0 == SkipReWs(s, c + 1) IN
                  IF v0 > Len(s) \/ s[v0] \notin Q THEN none
                  ELSE LET q == NextOf(s, v0 + 1, Q) IN
                       IF q > Len(s) THEN none
                       ELSE [ok |-> TRUE, g |-> Slice(s, v0 + 1, q - 1)]

\* re.findall(pattern, s, re.IGNORECASE): the group of the first match, ok
\* FALSE when the list is empty
FirstPair(s, key) ==
    LET I == {i \in 1..Len(s) : PairMatchAt(s, i, key).ok} IN
    IF I = {} THEN [ok |-> FALSE, g |-> <<>>] ELSE PairMatchAt(s, Min(I), key)

\* response_text[:limit] + "..." if len(response_text) > limit else response_text
RawText(response_text, limit) ==
    IF Len(response_text) > limit
    THEN SubSeq(response_text, 1, limit) \o Ellipsis ELSE response_text

\* the record both partial-data extractors build; they differ in the cut of
\* raw_text and in the element's summary
PartialRecord(response_text, limit, element_summary) ==
    LET has_tables == ContainsCI(response_text, W_table)
        has_figures == \/ ContainsCI(response_text, W_figure)
                       \/ ContainsCI(response_text, W_chart)
                       \/ ContainsCI(response_text, W_graph)
        sm == FirstPair(response_text, W_structured_data)
        structured_data == IF sm.ok THEN sm.g ELSE <<>>
        dm == FirstPair(response_text, W_description)
        description == IF dm.ok THEN dm.g ELSE PartialDescription
        element ==
            JObj(   (K_type :> JStr(IF has_tables THEN W_table ELSE W_figure))
                 @@ (K_bbox :> JArr(<<JNum(0, 0), JNum(0, 0), JNum(600, 0), JNum(400, 0)>>))
                 @@ (K_confidence :> JNum(5, -1))
                 @@ (K_description :> JStr(description))
                 @@ (K_content :> JObj(
                           (K_structured_data :> JStr(structured_data))
                        @@ (K_raw_text :> JStr(RawText(response_text, limit)))
                        @@ (K_summary :> JStr(element_summary)))))
    IN  JObj(   (K_page_analysis :> JObj(
                       (K_has_tables :> JBool(has_tables))
                    @@ (K_has_figures :> JBool(has_figures))
                    @@ (K_total_elements :>
                            JNum(IF has_tables \/ has_figures THEN 1 ELSE 0, 0))
                    @@ (K_page_summary :> JStr(PartialSummary))))
             @@ (K_elements :> JArr(
                    IF structured_data # <<>> \/ has_tables \/ has_figures
                    THEN <<element>> ELSE <<>>)))

\* extract_partial_data_from_response(response_text, page_number)
extract_partial_data_from_response(response_text) ==
    PartialRecord(response_text, RawTextLimitFallback, PartialDescription)

\* extract_partial_data(response_text, page_number)
extract_partial_data(response_text) ==
    PartialRecord(response_text, RawTextLimitVlm, VlmElementSummary)

\* an error record whose page_summary is the bare message, without "Error: "
create_error_fallback_bare(error_message) ==
    JObj(   (K_page_analysis :> JObj(
                   (K_has_tables :> JBool(FALSE))
                @@ (K_has_figures :> JBool(FALSE))
                @@ (K_total_elements :> JNum(0, 0))
                @@ (K_page_summary :> JStr(error_message))))
         @@ (K_elements :> JArr(<<>>)))

\* create_error_fallback(error_message, page_number)
create_error_fallback(error_message) ==
    JObj(   (K_page_analysis :> JObj(
                   (K_has_tables :> JBool(FALSE))
                @@ (K_has_figures :> JBool(FALSE))
                @@ (K_total_elements :> JNum(0, 0))
                @@ (K_page_summary :> JStr(ErrorPrefix \o error_message))))
         @@ (K_elements :> JArr(<<>>)))

-----------------------------------------------------------------------------
(* The raw responses the calls are made on *)

\* the longest string of the exhaustive family, and the longest body of the
\* exhaustive fenced family
MaxLen == 3
MaxFenceBody == 2

Alphabet == {"{", "}", "[", "]", "\"", "1", ","}

RECURSIVE StringsUpTo(_)
StringsUpTo(n) ==
    IF n = 0 THEN {<<>>}
    ELSE LET S == StringsUpTo(n - 1) IN
         S \cup {Append(s, c) : s \in {x \in S : Len(x) = n - 1}, c \in Alphabet}

P_head == <<"{","\"","p","a","g","e","_","a","n","a","l","y","s","i","s","\"",":"," ","{","\"","h","a","s","_","t","a","b","l","e","s","\"",":"," ","t","r","u","e",","," ","\"","h","a","s","_","f","i","g","u","r","e","s","\"",":"," ","f","a","l","s","e",","," ","\"","t","o","t","a","l","_","e","l","e","m","e","n","t","s","\"",":"," ","1",","," ","\"","p","a","g","e","_","s","u","m","m","a","r","y","\"",":"," ","\"">>
P_mid == <<"\"","}",","," ","\"","e","l","e","m","e","n","t","s","\"",":"," ","[">>
P_tail == <<"]","}">>
E_head == <<"{","\"","t","y","p","e","\"",":"," ","\"","t","a","b","l","e","\"",","," ","\"","b","b","o","x","\"",":"," ","[","1","0",","," ","1","0",","," ","6","0","0",","," ","4","0","0","]",","," ","\"","c","o","n","f","i","d","e","n","c","e","\"",":"," ","0",".","9","5",","," ","\"","d","e","s","c","r","i","p","t","i","o","n","\"",":"," ","\"">>
E_tail == <<"\"",","," ","\"","c","o","n","t","e","n","t","\"",":"," ","{","\"","s","t","r","u","c","t","u","r","e","d","_","d","a","t","a","\"",":"," ","\"","R","e","v","e","n","u","e"," ","d","a","t","a","\"","}","}">>
T_plain == <<"R","e","v","e","n","u","e"," ","t","a","b","l","e">>
T_comma_closer == <<"r","o","w","s"," ","[","a",",","]"," ","a","n","d"," ","{","b",","," ","}">>
T_fenced == <<"s","e","e"," ","bq","bq","bq","j","s","o","n"," ","{","}"," ","bq","bq","bq"," ","a","b","o","v","e">>
T_escaped_quote == <<"t","h","e"," ","\\","\"","n","e","t","\\","\""," ","c","o","l","u","m","n">>
T_brace == <<"o","p","e","n"," ","{"," ","o","n","l","y">>
A_head == <<"{","\"","e","l","e","m","e","n","t","s","\"",":"," ","[">>
A_mid == <<"]",","," ","\"","p","a","g","e","_","a","n","a","l","y","s","i","s","\"",":"," ","{","\"","h","a","s","_","t","a","b","l","e","s","\"",":"," ","f","a","l","s","e",","," ","\"","h","a","s","_","f","i","g","u","r","e","s","\"",":"," ","f","a","l","s","e",","," ","\"","t","o","t","a","l","_","e","l","e","m","e","n","t","s","\"",":"," ","0",","," ","\"","p","a","g","e","_","s","u","m","m","a","r","y","\"",":"," ","\"">>
A_tail == <<"\"","}","}">>
N_head == <<"{","\"","p","a","g","e","_","a","n","a","l","y","s","i","s","\"",":"," ","{","\"","h","a","s","_","t","a","b","l","e","s","\"",":"," ","f","a","l","s","e",","," ","\"","h","a","s","_","f","i","g","u","r","e","s","\"",":"," ","f","a","l","s","e",","," ","\"","t","o","t","a","l","_","e","l","e","m","e","n","t","s","\"",":"," ","0",","," ","\"","p","a","g","e","_","s","u","m","m","a","r","y","\"",":"," ","\"","s","\"","}",","," ","\"","e","l","e","m","e","n","t","s","\"",":"," ","[","]",","," ","\"","m","e","t","a","\"",":"," ","{","\"","s","o","u","r","c","e","\"",":"," ","{">>
N_tail == <<"}","}","}">>
LookalikeJson == <<"{","\"","p","a","g","e","_","a","n","a","l","y","s","i","s","\"",":"," ","{","\"","h","a","s","_","t","a","b","l","e","s","\"",":"," ","f","a","l","s","e",","," ","\"","h","a","s","_","f","i","g","u","r","e","s","\"",":"," ","f","a","l","s","e",","," ","\"","t","o","t","a","l","_","e","l","e","m","e","n","t","s","\"",":"," ","0",","," ","\"","p","a","g","e","_","s","u","m","m","a","r","y","\"",":"," ","\"","P","a","r","t","i","a","l"," ","d","a","t","a"," ","e","x","t","r","a","c","t","i","o","n"," ","d","u","e"," ","t","o"," ","J","S","O","N"," ","p","a","r","s","i","n","g"," ","e","r","r","o","r","\"","}",","," ","\"","e","l","e","m","e","n","t","s","\"",":"," ","[","]","}">>
ScenarioD == <<"T","h","e"," ","p","a","g","e"," ","s","h","o","w","s"," ","a"," ","T","a","b","l","e","."," ","d","e","s","c","r","i","p","t","i","o","n",":"," ","\"","Q","4"," ","r","e","v","e","n","u","e","\"">>
Q4Revenue == <<"Q","4"," ","r","e","v","e","n","u","e">>
ProseFigure == <<"F","i","g","u","r","e"," ","3"," ","i","s"," ","a"," ","b","a","r"," ","c","h","a","r","t">>
ProseStructured == <<"s","t","r","u","c","t","u","r","e","d","_","d","a","t","a",":"," ","'","a",":"," ","1","'"," ","a","n","d"," ","n","o","t","h","i","n","g"," ","e","l","s","e">>
ProsePlain == <<"n","o"," ","j","s","o","n"," ","h","e","r","e">>
ProseBraces == <<"{","t","a","b","l","e","}">>
ProseIntro == <<"H","e","r","e"," ","i","s"," ","t","h","e"," ","r","e","s","u","l","t",":"," ">>
ProseOutro == <<" ","D","o","n","e",".">>
L_empty_object == <<"{","}">>
L_no_page_analysis == <<"{","\"","e","l","e","m","e","n","t","s","\"",":"," ","[","]","}">>
L_no_elements == <<"{","\"","p","a","g","e","_","a","n","a","l","y","s","i","s","\"",":"," ","{","\"","h","a","s","_","t","a","b","l","e","s","\"",":"," ","t","r","u","e","}","}">>
L_partial_page_analysis == <<"{","\"","p","a","g","e","_","a","n","a","l","y","s","i","s","\"",":"," ","{","\"","h","a","s","_","f","i","g","u","r","e","s","\"",":"," ","t","r","u","e",","," ","\"","p","a","g","e","_","s","u","m","m","a","r","y","\"",":"," ","\"","s","\"","}",","," ","\"","e","l","e","m","e","n","t","s","\"",":"," ","[","]","}">>
L_array == <<"[","1",","," ","2","]">>
L_number == <<"1">>
L_null == <<"n","u","l","l">>
L_single_quoted == <<"{","'","e","l","e","m","e","n","t","s","'",":"," ","[","]","}">>

\* the payload of test_json_repair / test_json_parser with the given text in
\* page_summary and the given elements
PayloadOf(summary_text, elems) == P_head \o summary_text \o P_mid \o elems \o P_tail
ElementOf(description_text) == E_head \o description_text \o E_tail

FieldTexts == {T_plain, T_comma_closer, T_fenced, T_escaped_quote, T_brace}

\* schema-valid JSON documents
Payloads ==
    {PayloadOf(x, <<>>) : x \in FieldTexts}
        \cup {PayloadOf(<<"s">>, ElementOf(x)) : x \in FieldTexts}
        \cup {LookalikeJson}

\* schema-valid JSON documents that end in two or more closing braces
NestedPayloads ==
    {A_head \o A_mid \o <<"s">> \o A_tail,
     A_head \o ElementOf(T_plain) \o A_mid \o <<"s">> \o A_tail,
     N_head \o N_tail}

\* valid JSON that lacks fields of the schema, or is no object
LackingJson ==
    {L_empty_object, L_no_page_analysis, L_no_elements, L_partial_page_analysis,
     L_array, L_number, L_null, L_single_quoted}

InJsonFence(x) == FenceJson \o <<"\n">> \o x \o <<"\n">> \o Fence
InPlainFence(x) == Fence \o <<"\n">> \o x \o <<"\n">> \o Fence
InProse(x) == ProseIntro \o x \o ProseOutro

\* x with a comma put in before its final character (the closing brace)
WithTrailingComma(x) == SubSeq(x, 1, Len(x) - 1) \o <<",">> \o <<x[Len(x)]>>

\* Scenario B: the payload in a json fence, a comma before its final brace
ScenarioB(x) == InJsonFence(WithTrailingComma(x))

\* Scenario C: the payload without its last two closing braces
Truncated2(x) == SubSeq(x, 1, Len(x) - 2)

Prefixes(x) == {SubSeq(x, 1, n) : n \in 0..Len(x)}

FencedShort ==
    {open \o <<" ">> \o body \o Fence \o rest :
        open \in {FenceJson, Fence},
        body \in StringsUpTo(MaxFenceBody),
        rest \in {<<>>, <<" ">> \o L_empty_object}}

\* x between loose braces
LooseBraceBefore == <<"{","a","}"," ">>
LooseBraceAfter == <<" ","{","b","}">>
BetweenLooseBraces(x) == LooseBraceBefore \o x \o LooseBraceAfter

ProseStructuredEmpty == <<"s","t","r","u","c","t","u","r","e","d","_","d","a","t","a",":"," ","\"","\"">>
ProseUpperTable == <<"T","A","B","L","E"," ","2">>
ProseTableAndChart == <<"a"," ","t","a","b","l","e"," ","a","n","d"," ","a"," ","C","h","a","r","t">>

\* strings for the single-quote and the newline fix: a value that holds a
\* single-quoted word and a colon, a string literal broken across two lines,
\* a newline after a backslash
Q_quoted_word_in_value == <<"{","\"","a","\"",":"," ","\"","s","a","y"," ","'","x","'",":"," ","y","\"","}">>
Q_single_quoted_keys == <<"{","'","a","'",":"," ","1",","," ","'","b","'",":"," ","'","c","'","}">>
N_broken_literal == <<"{","\"","a","\"",":"," ","\"","x","\n","y","\"","}">>
N_after_backslash == <<"a","\\","\n","b">>
\* an object cut off inside an array
TruncatedInArray == <<"{","\"","a","\"",":"," ","[","1">>
FixInputs ==
    {Q_quoted_word_in_value, Q_single_quoted_keys, N_broken_literal, N_after_backslash,
     <<"\n">>, TruncatedInArray}

Prose ==
    {ScenarioD, ProseFigure, ProseStructured, ProsePlain, ProseBraces,
     ProseStructuredEmpty, ProseUpperTable, ProseTableAndChart}

Inputs ==
    StringsUpTo(MaxLen)
        \cup FencedShort
        \cup Payloads
        \cup {InJsonFence(x) : x \in Payloads}
        \cup {InPlainFence(x) : x \in Payloads}
        \cup {InProse(x) : x \in Payloads}
        \cup {WithTrailingComma(x) : x \in Payloads}
        \cup {ScenarioB(x) : x \in Payloads}
        \cup NestedPayloads
        \cup {Truncated2(x) : x \in NestedPayloads}
        \cup Prefixes(L_partial_page_analysis)
        \cup LackingJson
        \cup {InJsonFence(x) : x \in LackingJson}
        \cup {BetweenLooseBraces(InJsonFence(x)) : x \in Payloads}
        \cup FixInputs
        \cup Prose

Impls == {"fallback", "vlm"}

-----------------------------------------------------------------------------
(* The calls *)

NoRuns == [extract |-> 0, repair |-> 0, balance |-> 0, partial |-> 0]

Bump(r, stage) == [r EXCEPT ![stage] = @ + 1]

\* `if json_str:` on an Optional[str]
TruthyStr(s) == s # NoneStr /\ s # <<>>

Init ==
    /\ impl \in Impls
    /\ raw \in Inputs
    /\ pc = "start"
    /\ cand = NoneStr
    /\ fixed = NoneStr
    /\ tier = 0
    /\ result = JNone
    /\ path = "none"
    /\ runs = NoRuns
    /\ attempts = <<>>
    /\ partial_arg = NoneStr
    /\ log = <<>>
    /\ visual_data = <<>> /\ page_index = 0 /\ tables_by_page = <<>>
    /\ text_data = <<>> /\ heap = <<>> /\ text_input = <<>> /\ enhanced_data = <<>>
    /\ calls = <<>>
    /\ image_files = {} /\ futures = <<>> /\ results = <<>>
    /\ options = <<>> /\ files = {} /\ skip_steps = <<>> /\ executed = {} /\ final_data = <<>>

\* parse_with_fallback, Strategy 1: json_str = extract_json_from_markdown(...)
FbMarkdownStep(json_str) ==
    /\ cand' = json_str
    /\ tier' = IF FenceMatches(raw, 1, FenceJson) # <<>> THEN 1
               ELSE IF json_str # NoneStr THEN 2 ELSE 0
    /\ pc' = IF TruthyStr(json_str) THEN "repair1" ELSE "find"

FbMarkdown ==
    /\ impl = "fallback" /\ pc = "start"
    /\ FbMarkdownStep(extract_json_from_markdown(raw))
    /\ runs' = Bump(runs, "extract")
    /\ UNCHANGED <<impl, raw, fixed, result, path, attempts, partial_arg, log>>
    /\ UNCHANGED <<table_vars, calls, image_vars, pipeline_vars>>

\* parse_with_fallback, Strategy 2: the object from the first opening brace to
\* the last closing brace.  When Strategy 1 found no candidate this is the
\* same search for a candidate going on; after a candidate of Strategy 1 failed
\* it is a second search.
FbFind ==
    /\ impl = "fallback" /\ pc = "find"
    /\ LET Found(json_start, json_end) ==
               IF json_start # 0 /\ json_end > json_start
               THEN /\ cand' = SubSeq(raw, json_start, json_end - 1)
                    /\ tier' = 3
                    /\ pc' = "repair2"
               ELSE /\ cand' = NoneStr
                    /\ tier' = 0
                    /\ pc' = "partial"
       IN  Found(Find(raw, "{"), RFind(raw, "}") + 1)
    /\ runs' = IF runs.repair > 0 THEN Bump(runs, "extract") ELSE runs
    /\ UNCHANGED <<impl, raw, fixed, result, path, attempts, partial_arg, log>>
    /\ UNCHANGED <<table_vars, calls, image_vars, pipeline_vars>>

\* a parsed object with an empty elements list put in when the key is missing
Normalized(v) ==
    IF v.k = "obj" /\ K_elements \notin DOMAIN v.o
    THEN JObj((K_elements :> JArr(<<>>)) @@ v.o) ELSE v

\* FbRepairStep returning the parsed value with its missing elements defaulted
FbRepairStep_normalizing(rep, r) ==
    /\ fixed' = rep.s
    /\ runs' = [runs EXCEPT !.repair = @ + 1,
                            !.balance = @ + (IF rep.how = "as_is" THEN 0 ELSE 1)]
    /\ attempts' = attempts
                     \o (IF rep.how = "as_is" THEN <<TRUE>> ELSE <<FALSE, rep.how = "repaired">>)
                     \o (IF TruthyStr(rep.s) THEN <<r.ok>> ELSE <<>>)
    /\ IF TruthyStr(rep.s) /\ r.ok
       THEN /\ result' = Normalized(r.v)
            /\ path' = rep.how
            /\ log' = Append(log, IF pc = "repair1" THEN "parsed_from_markdown"
                                  ELSE "parsed_from_response")
            /\ pc' = "done"
       ELSE /\ pc' = (IF pc = "repair1" THEN "find" ELSE "partial")
            /\ UNCHANGED <<result, path, log>>

\* parse_with_fallback: repaired = repair_vlm_json(json_str) and, when it is
\* not None, json.loads(repaired), for the candidate of either strategy.
\* rep is what repair_vlm_json returned and r what json.loads(repaired) gives.
FbRepairStep(rep, r) ==
    /\ fixed' = rep.s
    /\ runs' = [runs EXCEPT !.repair = @ + 1,
                            !.balance = @ + (IF rep.how = "as_is" THEN 0 ELSE 1)]
    /\ attempts' = attempts
                     \o (IF rep.how = "as_is" THEN <<TRUE>> ELSE <<FALSE, rep.how = "repaired">>)
                     \o (IF TruthyStr(rep.s) THEN <<r.ok>> ELSE <<>>)
    /\ IF TruthyStr(rep.s) /\ r.ok
       THEN /\ result' = r.v
            /\ path' = rep.how
            /\ log' = Append(log, IF pc = "repair1" THEN "parsed_from_markdown"
                                  ELSE "parsed_from_response")
            /\ pc' = "done"
       ELSE /\ pc' = (IF pc = "repair1" THEN "find" ELSE "partial")
            /\ UNCHANGED <<result, path, log>>

FbRepair ==
    /\ impl = "fallback" /\ pc \in {"repair1", "repair2"}
    /\ FbRepairStep(repair_vlm_json(cand), JsonLoads(repair_vlm_json(cand).s))
    /\ UNCHANGED <<impl, raw, cand, tier, partial_arg>>
    /\ UNCHANGED <<table_vars, calls, image_vars, pipeline_vars>>

\* parse_with_fallback, Strategy 3
FbPartial ==
    /\ impl = "fallback" /\ pc = "partial"
    /\ partial_arg' = raw
    /\ result' = extract_partial_data_from_response(raw)
    /\ path' = "partial"
    /\ runs' = Bump(runs, "partial")
    /\ pc' = "done"
    /\ UNCHANGED <<impl, raw, cand, fixed, tier, attempts, log>>
    /\ UNCHANGED <<table_vars, calls, image_vars, pipeline_vars>>

\* parse_vlm_json_response: extract_json_from_response and the `if not
\* json_str` return of create_error_fallback
VlmExtractStep(json_str) ==
    /\ cand' = json_str
    /\ IF ~TruthyStr(json_str)
       THEN /\ log' = Append(log, "no_json_found")
            /\ result' = create_error_fallback(NoJsonMessage)
            /\ path' = "error_fallback"
            /\ pc' = "done"
       ELSE /\ pc' = "clean"
            /\ UNCHANGED <<result, path, log>>

VlmExtract ==
    /\ impl = "vlm" /\ pc = "start"
    /\ VlmExtractStep(extract_json_from_response(raw))
    /\ tier' = ExtractTier(raw)
    /\ runs' = Bump(runs, "extract")
    /\ UNCHANGED <<impl, raw, fixed, attempts, partial_arg>>
    /\ UNCHANGED <<table_vars, calls, image_vars, pipeline_vars>>

\* VlmCleanStep cleaning and parsing once more after a first failure
VlmCleanStep_retry(cleaned_json, r) ==
    /\ fixed' = cleaned_json
    /\ attempts' = Append(attempts, r.ok)
    /\ IF r.ok
       THEN /\ result' = r.v
            /\ path' = "cleaned"
            /\ log' = Append(log, "parsed")
            /\ pc' = "done"
       ELSE /\ log' = Append(log, "parse_failed_after_cleaning")
            /\ pc' = (IF runs.repair = 0 THEN "clean" ELSE "advanced")
            /\ UNCHANGED <<result, path>>

\* parse_vlm_json_response: cleaned_json = clean_json_string(json_str) and
\* json.loads(cleaned_json)
VlmCleanStep(cleaned_json, r) ==
    /\ fixed' = cleaned_json
    /\ attempts' = Append(attempts, r.ok)
    /\ IF r.ok
       THEN /\ result' = r.v
            /\ path' = "cleaned"
            /\ log' = Append(log, "parsed")
            /\ pc' = "done"
       ELSE /\ log' = Append(log, "parse_failed_after_cleaning")
            /\ pc' = "advanced"
            /\ UNCHANGED <<result, path>>

VlmClean ==
    /\ impl = "vlm" /\ pc = "clean"
    /\ VlmCleanStep(clean_json_string(cand), JsonLoads(clean_json_string(cand)))
    /\ runs' = Bump(runs, "repair")
    /\ UNCHANGED <<impl, raw, cand, tier, partial_arg>>
    /\ UNCHANGED <<table_vars, calls, image_vars, pipeline_vars>>

\* parse_vlm_json_response: result = try_advanced_json_cleaning(cleaned_json)
\* and `if result: return result`
VlmAdvancedStep(adv) ==
    /\ attempts' = attempts \o (CASE adv.how = "balanced" -> <<TRUE>>
                                  [] adv.how = "stripped" -> <<FALSE, TRUE>>
                                  [] OTHER -> <<FALSE, FALSE>>)
    /\ log' = IF adv.how = "balanced" THEN Append(log, "parsed_advanced")
              ELSE IF adv.how = "stripped" THEN Append(log, "parsed_after_removal")
              ELSE log
    /\ IF Truthy(adv.v)
       THEN /\ result' = adv.v
            /\ path' = adv.how
            /\ pc' = "done"
       ELSE /\ pc' = "partial"
            /\ UNCHANGED <<result, path>>

VlmAdvanced ==
    /\ impl = "vlm" /\ pc = "advanced"
    /\ VlmAdvancedStep(try_advanced_json_cleaning(fixed))
    /\ runs' = Bump(runs, "balance")
    /\ UNCHANGED <<impl, raw, cand, fixed, tier, partial_arg>>
    /\ UNCHANGED <<table_vars, calls, image_vars, pipeline_vars>>

\* VlmPartial without the warning extract_partial_data logs
VlmPartial_silent ==
    /\ impl = "vlm" /\ pc = "partial"
    /\ partial_arg' = raw
    /\ result' = extract_partial_data(raw)
    /\ path' = "partial"
    /\ runs' = Bump(runs, "partial")
    /\ pc' = "done"
    /\ UNCHANGED <<impl, raw, cand, fixed, tier, attempts, log>>
    /\ UNCHANGED <<table_vars, calls, image_vars, pipeline_vars>>

\* parse_vlm_json_response: extract_partial_data(original_response), where
\* original_response is the response_text extract_json_from_response returned
VlmPartial ==
    /\ impl = "vlm" /\ pc = "partial"
    /\ partial_arg' = raw
    /\ log' = Append(log, "attempting_partial")
    /\ result' = extract_partial_data(raw)
    /\ path' = "partial"
    /\ runs' = Bump(runs, "partial")
    /\ pc' = "done"
    /\ UNCHANGED <<impl, raw, cand, fixed, tier, attempts>>
    /\ UNCHANGED <<table_vars, calls, image_vars, pipeline_vars>>

Next ==
    \/ FbMarkdown
    \/ FbFind
    \/ FbRepair
    \/ FbPartial
    \/ VlmExtract
    \/ VlmClean
    \/ VlmAdvanced
    \/ VlmPartial

Spec == Init /\ [][Next]_vars

TypeOK ==
    /\ impl \in Impls
    /\ pc \in {"start", "repair1", "find", "repair2", "clean", "advanced", "partial", "done"}
    /\ path \in {"none", "as_is", "repaired", "cleaned", "balanced", "stripped",
                 "partial", "error_fallback"}
    /\ (pc = "done") = (result # JNone)

-----------------------------------------------------------------------------
(* The functions called on their own: impl names the function, raw is its  *)
(* argument, fixed (and cand, result) what it returned.                     *)

Extractors == {"extract_json_from_markdown", "extract_json_from_response"}

PartialExtractors == {"extract_partial_data_from_response", "extract_partial_data"}

\* the fixes of the repairers that are one line of code each, run on raw
LineFixes == {"trailing_commas", "single_quotes", "newlines"}

FnNames ==
    {"clean_json_string", "repair_vlm_json",
     "fix_incomplete_structures", "try_advanced_json_cleaning"}
        \cup Extractors \cup PartialExtractors \cup LineFixes

FnInit ==
    /\ impl \in FnNames
    /\ raw \in Inputs
    /\ pc = "start"
    /\ cand = NoneStr
    /\ fixed = NoneStr
    /\ tier = 0
    /\ result = JNone
    /\ path = "none"
    /\ runs = NoRuns
    /\ attempts = <<>>
    /\ partial_arg = NoneStr
    /\ log = <<>>
    /\ visual_data = <<>> /\ page_index = 0 /\ tables_by_page = <<>>
    /\ text_data = <<>> /\ heap = <<>> /\ text_input = <<>> /\ enhanced_data = <<>>
    /\ calls = <<>>
    /\ image_files = {} /\ futures = <<>> /\ results = <<>>
    /\ options = <<>> /\ files = {} /\ skip_steps = <<>> /\ executed = {} /\ final_data = <<>>

\* clean_json_string(raw), and then clean_json_string of what it returned:
\* at "once" fixed is the first output, at "done" cand is the first output and
\* fixed the second
FnClean ==
    /\ impl = "clean_json_string" /\ pc \in {"start", "once"}
    /\ fixed' = clean_json_string(IF pc = "start" THEN raw ELSE fixed)
    /\ cand' = fixed
    /\ pc' = (IF pc = "start" THEN "once" ELSE "done")
    /\ UNCHANGED <<impl, raw, tier, result, path, runs, attempts, partial_arg, log>>
    /\ UNCHANGED <<table_vars, calls, image_vars, pipeline_vars>>

\* repair_vlm_json(raw)
FnRepairStep(rep) ==
    /\ fixed' = rep.s
    /\ path' = rep.how

FnRepair ==
    /\ impl = "repair_vlm_json" /\ pc = "start"
    /\ FnRepairStep(repair_vlm_json(raw))
    /\ pc' = "done"
    /\ UNCHANGED <<impl, raw, cand, tier, result, runs, attempts, partial_arg, log>>
    /\ UNCHANGED <<table_vars, calls, image_vars, pipeline_vars>>

\* the balancers: fix_incomplete_structures(raw), and the balancing that
\* try_advanced_json_cleaning(raw) does before it parses
FnBalance ==
    /\ impl \in {"fix_incomplete_structures", "try_advanced_json_cleaning"} /\ pc = "start"
    /\ fixed' = (IF impl = "fix_incomplete_structures"
                 THEN fix_incomplete_structures(raw) ELSE AdvancedBalance(raw))
    /\ pc' = "done"
    /\ UNCHANGED <<impl, raw, cand, tier, result, path, runs, attempts, partial_arg, log>>
    /\ UNCHANGED <<table_vars, calls, image_vars, pipeline_vars>>

\* the extractors: extract_json_from_markdown(raw), and the first component
\* of extract_json_from_response(raw)
FnExtract ==
    /\ impl \in Extractors /\ pc = "start"
    /\ cand' = (IF impl = "extract_json_from_markdown"
                THEN extract_json_from_markdown(raw) ELSE extract_json_from_response(raw))
    /\ pc' = "done"
    /\ UNCHANGED <<impl, raw, fixed, tier, result, path, runs, attempts, partial_arg, log>>
    /\ UNCHANGED <<table_vars, calls, image_vars, pipeline_vars>>

\* the partial-data extractors: extract_partial_data_from_response(raw), and
\* extract_partial_data(raw), which logs a warning first
FnPartial ==
    /\ impl \in PartialExtractors /\ pc = "start"
    /\ partial_arg' = raw
    /\ result' = (IF impl = "extract_partial_data_from_response"
                  THEN extract_partial_data_from_response(raw) ELSE extract_partial_data(raw))
    /\ log' = (IF impl = "extract_partial_data" THEN Append(log, "attempting_partial") ELSE log)
    /\ pc' = "done"
    /\ UNCHANGED <<impl, raw, cand, fixed, tier, path, runs, attempts>>
    /\ UNCHANGED <<table_vars, calls, image_vars, pipeline_vars>>

\* one fix of the repairers on its own: the trailing-comma substitution of
\* repair_vlm_json and clean_json_string, and the single-quote and newline
\* substitutions of clean_json_string
FnLineFix ==
    /\ impl \in LineFixes /\ pc = "start"
    /\ fixed' = (CASE impl = "trailing_commas" -> FixTrailingCommas(raw)
                   [] impl = "single_quotes" -> FixSingleQuotesFrom(raw, 1, <<>>)
                   [] impl = "newlines" -> FixNewlines(raw))
    /\ pc' = "done"
    /\ UNCHANGED <<impl, raw, cand, tier, result, path, runs, attempts, partial_arg, log>>
    /\ UNCHANGED <<table_vars, calls, image_vars, pipeline_vars>>

FnNext ==
    \/ FnLineFix
    \/ FnClean
    \/ FnRepair
    \/ FnBalance
    \/ FnExtract
    \/ FnPartial

FnSpec == FnInit /\ [][FnNext]_vars

-----------------------------------------------------------------------------
(* simple_table_injector.py: extract_tables_from_visual.  A dict is a       *)
(* function of its keys, a list a sequence, a str here one TLA+ string.     *)

EmptyDict == <<>>

\* d.get(key, default)
Get(d, key, default) == IF key \in DOMAIN d THEN d[key] ELSE default

\* d after d[key] = value
Put(d, key, value) ==
    [k \in DOMAIN d \cup {key} |-> IF k = key THEN value ELSE d[k]]

\* the value element.get('confidence', 0.9) falls back on
DefaultConfidence == JNum(9, -1)

\* table_data of an element
TableData(element) ==
    [description |-> Get(element, "description", ""),
     structured_data |-> Get(Get(element, "content", EmptyDict), "structured_data", ""),
     raw_text |-> Get(Get(element, "content", EmptyDict), "raw_text", ""),
     confidence |-> Get(element, "confidence", DefaultConfidence),
     bbox |-> Get(element, "bbox", <<>>)]

\* page_tables after the loop over elements; element.get('type') is None,
\* written "None" here, for an element without a type
RECURSIVE PageTables(_)
PageTables(elements) ==
    IF elements = <<>> THEN <<>>
    ELSE (IF Get(Head(elements), "type", "None") = "table"
          THEN <<TableData(Head(elements))>> ELSE <<>>)
         \o PageTables(Tail(elements))

PagesOf(data) == Get(data, "pages", <<>>)
PageNumber(page) == Get(page, "page_number", 0)
ElementsOfPage(page) == Get(Get(page, "detection_result", EmptyDict), "elements", <<>>)

\* the inputs: the element of test_extract_tables_from_visual, a second
\* table, a table with no field but its type, and a figure
MaxPages == 2
MaxElements == 2

TestTable ==
    [type |-> "table", description |-> "Test table",
     content |-> [structured_data |-> "### Table: Test\n- **Item**: value",
                  raw_text |-> "Item value"],
     confidence |-> JNum(95, -2), bbox |-> <<0, 0, 100, 100>>]
SecondTable ==
    [type |-> "table", description |-> "Second table",
     content |-> [structured_data |-> "| a | b |", raw_text |-> "a b"],
     confidence |-> JNum(5, -1), bbox |-> <<10, 20, 30, 40>>]
BareTable == [type |-> "table"]
TestFigure ==
    [type |-> "figure", description |-> "A chart",
     content |-> [structured_data |-> "", raw_text |-> "chart"],
     confidence |-> JNum(8, -1), bbox |-> <<0, 0, 50, 50>>]

ElementInputs == {TestTable, SecondTable, BareTable, TestFigure}

SeqsUpTo(S, n) == UNION {[1..m -> S] : m \in 0..n}

PageInputs ==
    {[page_number |-> k, detection_result |-> [elements |-> es]] :
        k \in 0..1, es \in SeqsUpTo(ElementInputs, MaxElements)}
    \cup {[detection_result |-> [elements |-> es]] :
            es \in SeqsUpTo(ElementInputs, MaxElements)}
    \cup {[page_number |-> 1], [page_number |-> 1, detection_result |-> EmptyDict]}

VisualInputs ==
    {[pages |-> ps] : ps \in SeqsUpTo(PageInputs, MaxPages)} \cup {EmptyDict}

TblInit ==
    /\ impl = "extract_tables_from_visual"
    /\ raw = NoneStr
    /\ pc = "start"
    /\ cand = NoneStr
    /\ fixed = NoneStr
    /\ tier = 0
    /\ result = JNone
    /\ path = "none"
    /\ runs = NoRuns
    /\ attempts = <<>>
    /\ partial_arg = NoneStr
    /\ log = <<>>
    /\ visual_data \in VisualInputs
    /\ page_index = 0
    /\ tables_by_page = EmptyDict
    /\ text_data = <<>> /\ heap = <<>> /\ text_input = <<>> /\ enhanced_data = <<>>
    /\ calls = <<>>
    /\ image_files = {} /\ futures = <<>> /\ results = <<>>
    /\ options = <<>> /\ files = {} /\ skip_steps = <<>> /\ executed = {} /\ final_data = <<>>

\* the end of one pass of the loop over the pages
TblPageStep(page_number, page_tables) ==
    tables_by_page' = (IF page_tables # <<>>
                       THEN Put(tables_by_page, page_number, page_tables)
                       ELSE tables_by_page)

\* one pass of `for page in visual_data.get('pages', [])`
TblPage ==
    /\ pc = "start" /\ page_index < Len(PagesOf(visual_data))
    /\ TblPageStep(PageNumber(PagesOf(visual_data)[page_index + 1]),
                   PageTables(ElementsOfPage(PagesOf(visual_data)[page_index + 1])))
    /\ page_index' = page_index + 1
    /\ UNCHANGED <<parse_vars, visual_data, inject_vars, calls, image_vars, pipeline_vars>>

\* return tables_by_page
TblReturn ==
    /\ pc = "start" /\ page_index = Len(PagesOf(visual_data))
    /\ pc' = "done"
    /\ UNCHANGED <<impl, raw, cand, fixed, tier, result, path, runs, attempts,
                   partial_arg, log, table_vars, calls, image_vars, pipeline_vars>>

TblNext ==
    \/ TblPage
    \/ TblReturn

TblSpec == TblInit /\ [][TblNext]_vars

-----------------------------------------------------------------------------
(* Parse calls in flight at once.  The two modules define functions only:   *)
(* a call works on its arguments and locals, and the one object the calls   *)
(* share is the logging module's root logger, which they only write to.     *)
(* calls[c] holds the locals of call c, log what all the calls have logged. *)

NumCalls == 2
CallIds == 1..NumCalls

ConcInputs ==
    {<<>>, ScenarioD, L_no_elements,
     ScenarioB(PayloadOf(T_plain, <<>>)),
     FenceJson \o <<" ">> \o Fence \o <<" ">> \o L_empty_object}

\* the locals of a call of entry point i on r when it starts; logged is what
\* the call itself has logged
LocalInit(i, r) ==
    [impl |-> i, raw |-> r, pc |-> "start", cand |-> NoneStr, fixed |-> NoneStr,
     result |-> JNone, path |-> "none", logged |-> <<>>]

\* parse_with_fallback, Strategy 1
LocalMarkdown(st, json_str) ==
    [st EXCEPT !.cand = json_str,
               !.pc = IF TruthyStr(json_str) THEN "repair1" ELSE "find"]

\* parse_with_fallback, Strategy 2
LocalFind(st, json_start, json_end) ==
    IF json_start # 0 /\ json_end > json_start
    THEN [st EXCEPT !.cand = SubSeq(st.raw, json_start, json_end - 1), !.pc = "repair2"]
    ELSE [st EXCEPT !.cand = NoneStr, !.pc = "partial"]

\* parse_with_fallback: repair_vlm_json(json_str) and json.loads(repaired)
LocalRepair(st, rep, r) ==
    IF TruthyStr(rep.s) /\ r.ok
    THEN [st EXCEPT !.fixed = rep.s, !.result = r.v, !.path = rep.how,
                    !.logged = Append(@, IF st.pc = "repair1" THEN "parsed_from_markdown"
                                         ELSE "parsed_from_response"),
                    !.pc = "done"]
    ELSE [st EXCEPT !.fixed = rep.s,
                    !.pc = IF st.pc = "repair1" THEN "find" ELSE "partial"]

\* the return of a partial-data record, after the messages were logged
LocalPartial(st, record, messages) ==
    [st EXCEPT !.result = record, !.path = "partial",
               !.logged = @ \o messages, !.pc = "done"]

\* parse_vlm_json_response: extract_json_from_response and `if not json_str`
LocalVlmExtract(st, json_str) ==
    IF ~TruthyStr(json_str)
    THEN [st EXCEPT !.cand = json_str, !.result = create_error_fallback(NoJsonMessage),
                    !.path = "error_fallback",
                    !.logged = Append(@, "no_json_found"), !.pc = "done"]
    ELSE [st EXCEPT !.cand = json_str, !.pc = "clean"]

\* parse_vlm_json_response: clean_json_string(json_str) and json.loads
LocalVlmClean(st, cleaned_json, r) ==
    IF r.ok
    THEN [st EXCEPT !.fixed = cleaned_json, !.result = r.v, !.path = "cleaned",
                    !.logged = Append(@, "parsed"), !.pc = "done"]
    ELSE [st EXCEPT !.fixed = cleaned_json,
                    !.logged = Append(@, "parse_failed_after_cleaning"),
                    !.pc = "advanced"]

\* parse_vlm_json_response: try_advanced_json_cleaning and `if result:`
LocalVlmAdvanced(st, adv) ==
    IF Truthy(adv.v)
    THEN [st EXCEPT !.result = adv.v, !.path = adv.how,
                    !.logged = Append(@, IF adv.how = "balanced" THEN "parsed_advanced"
                                         ELSE "parsed_after_removal"),
                    !.pc = "done"]
    ELSE [st EXCEPT !.logged = @ \o (IF adv.how = "balanced" THEN <<"parsed_advanced">>
                                     ELSE IF adv.how = "stripped"
                                          THEN <<"parsed_after_removal">> ELSE <<>>),
                    !.pc = "partial"]

\* the next step of a call, from its locals alone
LocalStep(st) ==
    IF st.impl = "fallback"
    THEN CASE st.pc = "start" -> LocalMarkdown(st, extract_json_from_markdown(st.raw))
           [] st.pc = "find" -> LocalFind(st, Find(st.raw, "{"), RFind(st.raw, "}") + 1)
           [] st.pc \in {"repair1", "repair2"} ->
                LocalRepair(st, repair_vlm_json(st.cand),
                            JsonLoads(repair_vlm_json(st.cand).s))
           [] st.pc = "partial" ->
                LocalPartial(st, extract_partial_data_from_response(st.raw), <<>>)
           [] OTHER -> st
    ELSE CASE st.pc = "start" -> LocalVlmExtract(st, extract_json_from_response(st.raw))
           [] st.pc = "clean" ->
                LocalVlmClean(st, clean_json_string(st.cand),
                              JsonLoads(clean_json_string(st.cand)))
           [] st.pc = "advanced" -> LocalVlmAdvanced(st, try_advanced_json_cleaning(st.fixed))
           [] st.pc = "partial" ->
                LocalPartial(st, extract_partial_data(st.raw), <<"attempting_partial">>)
           [] OTHER -> st

ConcInit ==
    /\ impl = "concurrent"
    /\ raw = NoneStr
    /\ pc = "start"
    /\ cand = NoneStr
    /\ fixed = NoneStr
    /\ tier = 0
    /\ result = JNone
    /\ path = "none"
    /\ runs = NoRuns
    /\ attempts = <<>>
    /\ partial_arg = NoneStr
    /\ log = <<>>
    /\ visual_data = <<>> /\ page_index = 0 /\ tables_by_page = <<>>
    /\ text_data = <<>> /\ heap = <<>> /\ text_input = <<>> /\ enhanced_data = <<>>
    /\ calls \in [CallIds -> {LocalInit(i, r) : i \in Impls, r \in ConcInputs}]
    /\ image_files = {} /\ futures = <<>> /\ results = <<>>
    /\ options = <<>> /\ files = {} /\ skip_steps = <<>> /\ executed = {} /\ final_data = <<>>

\* a step of call c in which the candidate is kept in a module-level
\* variable, which every call in flight reads
ConcStep_shared_candidate(c, next) ==
    /\ calls' = [k \in CallIds |->
                    IF k = c THEN next ELSE [calls[k] EXCEPT !.cand = next.cand]]
    /\ log' = log \o SubSeq(next.logged, Len(calls[c].logged) + 1, Len(next.logged))

\* a step of call c: its locals change, and what it logged goes to the log
ConcStep(c, next) ==
    /\ calls' = [calls EXCEPT ![c] = next]
    /\ log' = log \o SubSeq(next.logged, Len(calls[c].logged) + 1, Len(next.logged))

ConcCall(c) ==
    /\ calls[c].pc # "done"
    /\ ConcStep(c, LocalStep(calls[c]))
    /\ UNCHANGED <<impl, raw, pc, cand, fixed, tier, result, path, runs, attempts,
                   partial_arg, table_vars, image_vars, pipeline_vars>>

ConcNext == \E c \in CallIds : ConcCall(c)

ConcSpec == ConcInit /\ [][ConcNext]_vars

-----------------------------------------------------------------------------
(* simple_table_injector.py: inject_tables_into_text.  The page dicts are   *)
(* objects: text_data["pages"] is a list of references into heap, and       *)
(* dict.copy() copies the references, not the pages.                        *)

\* the value of a dict whose pages list holds references, pages included
Deref(data, h) ==
    IF "pages" \in DOMAIN data
    THEN [data EXCEPT !["pages"] = [i \in 1..Len(data["pages"]) |-> h[data["pages"][i]]]]
    ELSE data

\* the pages of test_inject_tables_into_text and others: numbered 0 and 1,
\* without a number, and with a tables field already
TextPages ==
    {[page_number |-> 0, text |-> "Test page content"],
     [page_number |-> 1, text |-> "Second page"],
     [text |-> "No number"],
     [page_number |-> 1, text |-> "Has tables", tables |-> <<"old">>]}

TablesInputs ==
    {EmptyDict,
     0 :> <<TableData(TestTable)>>,
     (0 :> <<TableData(TestTable)>>) @@ (1 :> <<TableData(SecondTable), TableData(BareTable)>>)}

\* the lookup with the page number taken as counted from one
TablesOfPage_one_based(page_number) ==
    IF page_number - 1 \in DOMAIN tables_by_page THEN tables_by_page[page_number - 1] ELSE <<>>

\* what page['tables'] is set to
TablesOfPage(page_number) ==
    IF page_number \in DOMAIN tables_by_page THEN tables_by_page[page_number] ELSE <<>>

InjInit ==
    /\ impl = "inject_tables_into_text"
    /\ raw = NoneStr
    /\ pc = "start"
    /\ cand = NoneStr
    /\ fixed = NoneStr
    /\ tier = 0
    /\ result = JNone
    /\ path = "none"
    /\ runs = NoRuns
    /\ attempts = <<>>
    /\ partial_arg = NoneStr
    /\ log = <<>>
    /\ visual_data = <<>>
    /\ page_index = 0
    /\ tables_by_page \in TablesInputs
    /\ heap \in SeqsUpTo(TextPages, MaxPages)
    /\ text_data \in {[pdf_name |-> "test", total_pages |-> Len(heap),
                        pages |-> [i \in 1..Len(heap) |-> i]],
                       [pdf_name |-> "test"]}
    /\ text_input = Deref(text_data, heap)
    /\ enhanced_data = <<>>
    /\ calls = <<>>
    /\ image_files = {} /\ futures = <<>> /\ results = <<>>
    /\ options = <<>> /\ files = {} /\ skip_steps = <<>> /\ executed = {} /\ final_data = <<>>

\* enhanced_data = text_data.copy()
InjCopy ==
    /\ impl = "inject_tables_into_text" /\ pc = "start"
    /\ enhanced_data' = text_data
    /\ pc' = "loop"
    /\ UNCHANGED <<impl, raw, cand, fixed, tier, result, path, runs, attempts,
                   partial_arg, log, visual_data, page_index, tables_by_page,
                   text_data, heap, text_input, calls, image_vars, pipeline_vars>>

\* one pass of `for page in enhanced_data.get('pages', [])`
InjPage ==
    /\ pc = "loop" /\ page_index < Len(PagesOf(enhanced_data))
    /\ heap' = [heap EXCEPT ![PagesOf(enhanced_data)[page_index + 1]] =
                    Put(@, "tables", TablesOfPage(PageNumber(@)))]
    /\ page_index' = page_index + 1
    /\ UNCHANGED <<parse_vars, visual_data, tables_by_page, text_data, text_input,
                   enhanced_data, calls, image_vars, pipeline_vars>>

\* return enhanced_data
InjReturn ==
    /\ pc = "loop" /\ page_index = Len(PagesOf(enhanced_data))
    /\ pc' = "done"
    /\ UNCHANGED <<impl, raw, cand, fixed, tier, result, path, runs, attempts,
                   partial_arg, log, table_vars, calls, image_vars, pipeline_vars>>

InjNext ==
    \/ InjCopy
    \/ InjPage
    \/ InjReturn

InjSpec == InjInit /\ [][InjNext]_vars

-----------------------------------------------------------------------------
(* process_images_openai: one task per page image on a thread pool; the    *)
(* calling thread collects the tasks as they complete.  A JSON value is a  *)
(* tagged record as above, a dict a function of its keys.  The field       *)
(* processing_timestamp of a page record, the time of day at which the     *)
(* worker ran, and the fields derived from the path are left out.          *)

\* the error of a worker that raised nothing
NoError == "None"

\* len(v) is defined for these values; for others it raises TypeError
HasLen(v) == v.k \in {"arr", "str", "obj"}
PyLen(v) ==
    CASE v.k = "arr" -> Len(v.a)
      [] v.k = "str" -> Len(v.s)
      [] v.k = "obj" -> Cardinality(DOMAIN v.o)

\* what detect_tables_figures_openai can return: the object the model
\* answered with, or one of its own fallbacks
NoContentResult == [elements |-> JArr(<<>>), error |-> JStr("No response content")]
DetectionInputs ==
    {[elements |-> JArr(<<>>)],
     [elements |-> JArr(<<TestTable>>)],
     [elements |-> JArr(<<TestTable, TestFigure>>)],
     [page_analysis |-> JObj(<<>>)],
     [elements |-> JNone],
     NoContentResult}

\* process_single_image((page_num, image_path, client)) when the detection
\* returned detection_result
process_single_image(page_num, detection_result) ==
    LET elements == Get(detection_result, "elements", JArr(<<>>))
        page_result == [page_number |-> page_num,
                        detection_result |-> detection_result,
                        raw_response |-> ""]
    IN  IF HasLen(elements)
        THEN [page_num |-> page_num, page_result |-> page_result,
              element_count |-> PyLen(elements), error |-> NoError]
        ELSE [page_num |-> page_num, page_result |-> JNone,
              element_count |-> 0, error |-> "object has no len()"]

\* the images a directory can hold, and the arguments of a call
MaxImages == 3
MaxWorkers == 2
PageImage(i) == <<"page", i, "png">>
ImageDirs == SUBSET {PageImage(i) : i \in 0..(MaxImages - 1)}

\* [(i, path) for i in range(from, max_pages) if the path exists]
RECURSIVE ImageFilesFrom(_, _)
ImageFilesFrom(i, max_pages) ==
    IF i >= max_pages THEN <<>>
    ELSE IF PageImage(i) \in files
         THEN <<i>> \o ImageFilesFrom(i + 1, max_pages)
         ELSE ImageFilesFrom(i + 1, max_pages)

\* pages.sort(key=lambda x: x["page_number"]): stable, ascending
RECURSIVE InsertByPageNumber(_, _)
InsertByPageNumber(sorted, page) ==
    IF sorted = <<>> THEN <<page>>
    ELSE IF Head(sorted)["page_number"] <= page["page_number"]
         THEN <<Head(sorted)>> \o InsertByPageNumber(Tail(sorted), page)
         ELSE <<page>> \o sorted

SortedByPageNumber_as_collected(pages) == pages

RECURSIVE SortedByPageNumber(_)
SortedByPageNumber(pages) ==
    IF pages = <<>> THEN <<>>
    ELSE InsertByPageNumber(SortedByPageNumber(SubSeq(pages, 1, Len(pages) - 1)),
                            pages[Len(pages)])

ImgInit ==
    /\ impl = "process_images_openai"
    /\ raw = <<>> /\ pc = "start" /\ cand = <<>> /\ fixed = <<>> /\ tier = "none"
    /\ result = <<>> /\ path = "none" /\ runs = 0 /\ attempts = 0
    /\ partial_arg = <<>> /\ log = <<>>
    /\ visual_data = <<>> /\ page_index = 0 /\ tables_by_page = <<>>
    /\ text_data = <<>> /\ heap = <<>> /\ text_input = <<>> /\ enhanced_data = <<>>
    /\ calls = <<>>
    /\ image_files = <<>> /\ futures = <<>> /\ results = <<>>
    /\ options \in [max_pages : {MaxImages - 1, MaxImages}, max_workers : 1..MaxWorkers]
    /\ files \in ImageDirs
    /\ skip_steps = <<>> /\ executed = {} /\ final_data = <<>>

ImgFrame == UNCHANGED <<impl, raw, cand, fixed, tier, result, path, runs, attempts,
                        partial_arg, table_vars, calls, options, files,
                        skip_steps, executed, final_data>>

\* the listing of the directory, the early return and the initial results
ImgList ==
    /\ impl = "process_images_openai" /\ pc = "start"
    /\ image_files' = ImageFilesFrom(0, options.max_pages)
    /\ IF image_files' = <<>>
       THEN /\ results' = EmptyDict
            /\ pc' = "done"
            /\ log' = Append(log, <<"No images found!", 0, 0>>)
       ELSE /\ results' = [pdf_name |-> "test", images_dir |-> "images",
                           total_pages |-> Len(image_files'), total_elements |-> 0,
                           errors |-> 0, pages |-> <<>>]
            /\ pc' = "submit"
            /\ log' = log
    /\ futures' = <<>>
    /\ ImgFrame

\* executor.submit for the next image
ImgSubmit ==
    /\ impl = "process_images_openai" /\ pc = "submit"
    /\ LET n == Cardinality(DOMAIN futures) + 1
       IN  /\ futures' = (image_files[n] :> [state |-> "pending"]) @@ futures
           /\ pc' = IF n = Len(image_files) THEN "collect" ELSE "submit"
    /\ UNCHANGED <<image_files, results, log>>
    /\ ImgFrame

\* a free worker thread takes the pending task that was submitted first
ImgStart(p) ==
    /\ impl = "process_images_openai"
    /\ p \in DOMAIN futures /\ futures[p].state = "pending"
    /\ \A q \in DOMAIN futures : futures[q].state = "pending" => p <= q
    /\ Cardinality({q \in DOMAIN futures : futures[q].state = "running"})
          < options.max_workers
    /\ futures' = [futures EXCEPT ![p] = [state |-> "running"]]
    /\ UNCHANGED <<image_files, results, log, pc>>
    /\ ImgFrame

\* the worker runs process_single_image to its return
ImgWork(p) ==
    /\ impl = "process_images_openai"
    /\ p \in DOMAIN futures /\ futures[p].state = "running"
    /\ \E detection_result \in DetectionInputs :
          LET r == process_single_image(p, detection_result)
          IN  /\ futures' = [futures EXCEPT ![p] = [state |-> "finished", result |-> r]]
              /\ log' = Append(log, IF r.error = NoError
                                    THEN <<"Found elements on page", r.element_count, p + 1>>
                                    ELSE <<"Error processing page", 0, p + 1>>)
    /\ UNCHANGED <<image_files, results, pc>>
    /\ ImgFrame

\* one turn of the loop over as_completed(future_to_page)
ImgCollect(p) ==
    /\ impl = "process_images_openai" /\ pc = "collect"
    /\ p \in DOMAIN futures /\ futures[p].state = "finished"
    /\ LET r == futures[p].result
       IN  results' = IF r.error \notin {NoError, ""}
                      THEN [results EXCEPT !["errors"] = @ + 1]
                      ELSE [results EXCEPT !["pages"] = Append(@, r.page_result),
                                           !["total_elements"] = @ + r.element_count]
    /\ futures' = [futures EXCEPT ![p].state = "collected"]
    /\ UNCHANGED <<image_files, log, pc>>
    /\ ImgFrame

\* the end of the loop, the sort and the return
ImgReturn ==
    /\ impl = "process_images_openai" /\ pc = "collect"
    /\ \A p \in DOMAIN futures : futures[p].state = "collected"
    /\ results' = [results EXCEPT !["pages"] = SortedByPageNumber(@)]
    /\ pc' = "done"
    /\ UNCHANGED <<image_files, futures, log>>
    /\ ImgFrame

ImgNext ==
    \/ ImgList
    \/ ImgSubmit
    \/ \E p \in 0..(MaxImages - 1) : ImgStart(p)
    \/ \E p \in 0..(MaxImages - 1) : ImgWork(p)
    \/ \E p \in 0..(MaxImages - 1) : ImgCollect(p)
    \/ ImgReturn

ImgSpec == ImgInit /\ [][ImgNext]_vars

-----------------------------------------------------------------------------
(* run_pdf_visual_extraction: five steps, each with one output, skipped    *)
(* when check_existing_files found its output.  files maps an output that  *)
(* exists to "stale" (left by an earlier run) or "fresh" (written by this  *)
(* run); the data a step loads or computes carries the same mark.          *)

Steps == {"text_extraction", "images", "visual_detection", "table_injection",
          "markdown_export"}

\* the steps that read the output of a step
Consumers(step) ==
    CASE step = "text_extraction" -> {"table_injection"}
      [] step = "images" -> {"visual_detection"}
      [] step = "visual_detection" -> {"table_injection"}
      [] step = "table_injection" -> {"markdown_export"}
      [] step = "markdown_export" -> {}

check_existing_files(export_md, force) ==
    IF force THEN [s \in Steps |-> FALSE]
    ELSE [s \in Steps |->
             IF s = "markdown_export" THEN export_md /\ s \in DOMAIN files
             ELSE s \in DOMAIN files]

\* the file of a step after the step wrote it
Written(step) == (step :> "fresh") @@ files

PipeInit ==
    /\ impl = "run_pdf_visual_extraction"
    /\ raw = <<>> /\ pc = "start" /\ cand = <<>> /\ fixed = <<>> /\ tier = "none"
    /\ result = <<>> /\ path = "none" /\ runs = 0 /\ attempts = 0
    /\ partial_arg = <<>> /\ log = <<>>
    /\ visual_data = <<>> /\ page_index = 0 /\ tables_by_page = <<>>
    /\ text_data = <<>> /\ heap = <<>> /\ text_input = <<>> /\ enhanced_data = <<>>
    /\ calls = <<>>
    /\ image_files = <<>> /\ futures = <<>> /\ results = <<>>
    /\ options \in [export_md : BOOLEAN, force : BOOLEAN, api_key : BOOLEAN]
    /\ files \in UNION {[present -> {"stale"}] : present \in SUBSET Steps}
    /\ skip_steps = <<>> /\ executed = {} /\ final_data = <<>>

PipeFrame == UNCHANGED <<impl, raw, cand, fixed, tier, result, path, runs, attempts,
                         partial_arg, log, page_index, tables_by_page, heap,
                         text_input, enhanced_data, calls, image_vars, options>>

PipeCheck ==
    /\ impl = "run_pdf_visual_extraction" /\ pc = "start"
    /\ skip_steps' = check_existing_files(options.export_md, options.force)
    /\ pc' = "text_extraction"
    /\ UNCHANGED <<files, executed, final_data, text_data, visual_data>>
    /\ PipeFrame

\* Step 1: load the text file, or extract the text and save it
PipeText ==
    /\ impl = "run_pdf_visual_extraction" /\ pc = "text_extraction"
    /\ IF skip_steps["text_extraction"]
       THEN /\ text_data' = files["text_extraction"]
            /\ UNCHANGED <<files, executed>>
       ELSE /\ text_data' = "fresh"
            /\ files' = Written("text_extraction")
            /\ executed' = executed \cup {"text_extraction"}
    /\ pc' = "images"
    /\ UNCHANGED <<skip_steps, final_data, visual_data>>
    /\ PipeFrame

\* Step 2: keep the images found, or convert the PDF
PipeImages ==
    /\ impl = "run_pdf_visual_extraction" /\ pc = "images"
    /\ IF skip_steps["images"]
       THEN UNCHANGED <<files, executed>>
       ELSE /\ files' = Written("images")
            /\ executed' = executed \cup {"images"}
    /\ pc' = "visual_detection"
    /\ UNCHANGED <<skip_steps, final_data, text_data, visual_data>>
    /\ PipeFrame

\* Step 3: load the detection file, or write an empty one when no API key
\* is set, or run process_images_openai on the images and save
PipeVisual ==
    /\ impl = "run_pdf_visual_extraction" /\ pc = "visual_detection"
    /\ IF skip_steps["visual_detection"]
       THEN /\ visual_data' = files["visual_detection"]
            /\ UNCHANGED <<files, executed>>
       ELSE /\ visual_data' = IF options.api_key THEN "fresh" ELSE "empty"
            /\ files' = Written("visual_detection")
            /\ executed' = executed \cup {"visual_detection"}
    /\ pc' = "table_injection"
    /\ UNCHANGED <<skip_steps, final_data, text_data>>
    /\ PipeFrame

\* Step 4: load the final file, or inject the tables and save
PipeInjection ==
    /\ impl = "run_pdf_visual_extraction" /\ pc = "table_injection"
    /\ IF skip_steps["table_injection"]
       THEN /\ final_data' = files["table_injection"]
            /\ UNCHANGED <<files, executed>>
       ELSE /\ final_data' = "fresh"
            /\ files' = Written("table_injection")
            /\ executed' = executed \cup {"table_injection"}
    /\ pc' = IF options.export_md THEN "markdown_export" ELSE "summary"
    /\ UNCHANGED <<skip_steps, text_data, visual_data>>
    /\ PipeFrame

\* Step 5, when export_md: keep the report found, or convert final_data
PipeMarkdown ==
    /\ impl = "run_pdf_visual_extraction" /\ pc = "markdown_export"
    /\ IF skip_steps["markdown_export"]
       THEN UNCHANGED <<files, executed>>
       ELSE /\ files' = Written("markdown_export")
            /\ executed' = executed \cup {"markdown_export"}
    /\ pc' = "summary"
    /\ UNCHANGED <<skip_steps, final_data, text_data, visual_data>>
    /\ PipeFrame

\* create_summary_report(pdf_name, text_data, visual_data, final_data, ...)
PipeSummary ==
    /\ impl = "run_pdf_visual_extraction" /\ pc = "summary"
    /\ pc' = "done"
    /\ UNCHANGED <<files, skip_steps, executed, final_data, text_data, visual_data>>
    /\ PipeFrame

PipeNext ==
    \/ PipeCheck
    \/ PipeText
    \/ PipeImages
    \/ PipeVisual
    \/ PipeInjection
    \/ PipeMarkdown
    \/ PipeSummary

PipeSpec == PipeInit /\ [][PipeNext]_vars

-----------------------------------------------------------------------------
(* The claims *)

\* the DetectionResult schema: a record with a page_analysis record holding
\* the four fields and an elements sequence
Conforms(v) ==
    /\ v.k = "obj"
    /\ {K_page_analysis, K_elements} \subseteq DOMAIN v.o
    /\ v.o[K_page_analysis].k = "obj"
    /\ {K_has_tables, K_has_figures, K_total_elements, K_page_summary}
           \subseteq DOMAIN v.o[K_page_analysis].o
    /\ v.o[K_elements].k = "arr"

\* the elements of a returned value, JNone when it has none
ElementsOf(v) ==
    IF v.k = "obj" /\ K_elements \in DOMAIN v.o THEN v.o[K_elements] ELSE JNone

\* a field of the page_analysis of a returned value, JNone when it has none
AnalysisField(v, key) ==
    IF v.k = "obj" /\ K_page_analysis \in DOMAIN v.o
       /\ v.o[K_page_analysis].k = "obj" /\ key \in DOMAIN v.o[K_page_analysis].o
    THEN v.o[K_page_analysis].o[key] ELSE JNone

\* the call returned a value that json.loads produced
ParsedPaths == {"as_is", "repaired", "cleaned", "balanced", "stripped"}

\* the call returned a record built without a parsed candidate
FallbackPaths == {"partial", "error_fallback"}

LastLog == IF log = <<>> THEN "" ELSE log[Len(log)]

\* Scenario D's record: exactly one element, a table of confidence 0.5
\* described "Q4 revenue"
ScenarioDRecord(v) ==
    /\ ElementsOf(v).k = "arr"
    /\ Len(ElementsOf(v).a) = 1
    /\ ElementsOf(v).a[1].o[K_type] = JStr(W_table)
    /\ ElementsOf(v).a[1].o[K_confidence] = JNum(5, -1)
    /\ ElementsOf(v).a[1].o[K_description] = JStr(Q4Revenue)

\* C1: for every input string both entry points end without raising (the
\* call is always at one of the positions of its entry point), and the value
\* returned conforms to the DetectionResult schema.
C1_TotalAndConforming ==
    /\ pc \in {"start", "repair1", "find", "repair2", "clean", "advanced", "partial", "done"}
    /\ pc = "done" => Conforms(result)

C3_NoCandidateGoesPartial ==
    (pc = "done" /\ runs.repair = 0)
        => /\ path = "partial"
           /\ runs.partial = 1 /\ partial_arg = raw
           /\ (raw = ScenarioD => ScenarioDRecord(result))

\* C3 as amended: when no candidate is found, parse_with_fallback returns the
\* partial extraction of the raw text (for Scenario D one element: a table of
\* confidence 0.5 described "Q4 revenue"), and parse_vlm_json_response returns
\* the error record of create_error_fallback without any partial extraction.
C3_NoCandidate ==
    (pc = "done" /\ runs.repair = 0)
        => IF impl = "fallback"
           THEN /\ path = "partial" /\ runs.partial = 1 /\ partial_arg = raw
                /\ (raw = ScenarioD =>
                      /\ ScenarioDRecord(result)
                      /\ AnalysisField(result, K_has_tables) = JBool(TRUE))
           ELSE /\ path = "error_fallback" /\ runs.partial = 0
                /\ ElementsOf(result) = JArr(<<>>)
                /\ AnalysisField(result, K_page_summary)
                       = JStr(ErrorPrefix \o NoJsonMessage)

C3_Witness ==
    /\ pc = "done" /\ impl = "fallback" /\ raw = ScenarioD
    /\ runs.repair = 0 /\ path = "partial"

\* C4 as claimed: within one call every stage runs at most once.
C4_EachStageOnce ==
    \A stage \in DOMAIN runs : runs[stage] <= 1

\* C4 as amended: parse_vlm_json_response runs every stage at most once;
\* parse_with_fallback looks for a candidate up to twice and repairs and
\* parses each candidate it found once, a second candidate only after the
\* first one failed; the partial extraction runs at most once.
C4_StageRuns ==
    /\ runs.partial <= 1
    /\ runs.balance <= runs.repair
    /\ runs.repair <= runs.extract
    /\ IF impl = "vlm" THEN runs.extract <= 1
       ELSE /\ runs.extract <= 2
            /\ (runs.repair = 2 => \E i \in DOMAIN attempts : ~attempts[i])

C4_Witness ==
    /\ pc = "done" /\ impl = "fallback" /\ runs.repair = 2 /\ runs.extract = 2

\* C5: the partial-data extractor is reached only when no candidate was found
\* or every parse attempt on the candidate failed, and it is applied to the
\* unmodified raw text.
C5_PartialOnlyAfterFailure ==
    path = "partial"
        => /\ \A i \in DOMAIN attempts : ~attempts[i]
           /\ partial_arg = raw

C7_OutcomeFromReturnValue ==
    (pc = "done" /\ result = extract_partial_data_from_response(<<>>))
        => path = "partial"

\* C7 as amended: the entry points return the record alone; which stage
\* produced it shows only in what was logged.  parse_with_fallback logs a
\* success message exactly when a candidate parsed, the same whether or not
\* a repair was needed, and nothing before a partial extraction;
\* parse_vlm_json_response logs one message per stage.
C7_OutcomeOnlyLogged ==
    pc = "done" =>
        IF impl = "fallback"
        THEN /\ path \in {"as_is", "repaired", "partial"}
             /\ path = "partial" <=> log = <<>>
             /\ path \in {"as_is", "repaired"}
                    <=> LastLog \in {"parsed_from_markdown", "parsed_from_response"}
        ELSE LastLog = (CASE path = "cleaned" -> "parsed"
                          [] path = "balanced" -> "parsed_advanced"
                          [] path = "stripped" -> "parsed_after_removal"
                          [] path = "partial" -> "attempting_partial"
                          [] path = "error_fallback" -> "no_json_found"
                          [] OTHER -> "")

C7_Witness ==
    /\ pc = "done" /\ impl = "fallback" /\ raw = LookalikeJson
    /\ path = "as_is" /\ result = extract_partial_data_from_response(<<>>)

\* C8: a schema-valid payload in a json fence with a comma before its final
\* closing brace yields the elements of the payload, and not from the
\* fallback.
C8_FencedTrailingComma ==
    \A x \in Payloads :
        (pc = "done" /\ raw = ScenarioB(x))
            => /\ path \in ParsedPaths
               /\ ElementsOf(result) = ElementsOf(JsonLoads(x).v)

\* C9: a payload cut before its last two closing braces yields the record of
\* the payload, the two braces appended, and not from the fallback.
C9_TruncatedTwoBraces ==
    \A x \in NestedPayloads :
        (pc = "done" /\ raw = Truncated2(x))
            => /\ path \in ParsedPaths
               /\ result = JsonLoads(x).v

C11_CleanIdempotent ==
    (impl = "clean_json_string" /\ pc = "done") => fixed = cand

\* C12: a string that parses as JSON still parses, and to the same value,
\* after clean_json_string and after repair_vlm_json.
C12_ValidStaysValid ==
    (/\ \/ impl = "clean_json_string" /\ pc = "once"
        \/ impl = "repair_vlm_json" /\ pc = "done"
     /\ JsonLoads(raw).ok)
        => /\ JsonLoads(fixed).ok
           /\ JsonLoads(fixed).v = JsonLoads(raw).v

\* the closers a balancer has to append to s: opens minus closes, not below 0
MissingClosers(s, open, close) == Max({0, Count(s, open) - Count(s, close)})

\* C13: the balancer returns its argument followed by exactly the missing
\* closing braces and then exactly the missing closing brackets; the argument
\* is an unchanged prefix, and a string with nothing missing is returned
\* unchanged.
C13_BalancerAppendsMissing ==
    (impl \in {"fix_incomplete_structures", "try_advanced_json_cleaning"} /\ pc = "done")
        => LET n == MissingClosers(raw, "{", "}")
               m == MissingClosers(raw, "[", "]")
           IN  /\ Len(fixed) = Len(raw) + n + m
               /\ \A i \in 1..Len(raw) : fixed[i] = raw[i]
               /\ \A i \in 1..n : fixed[Len(raw) + i] = "}"
               /\ \A i \in 1..m : fixed[Len(raw) + n + i] = "]"
               /\ (n = 0 /\ m = 0) => fixed = raw

C13_Witness ==
    /\ impl = "fix_incomplete_structures" /\ pc = "done"
    /\ raw = <<"{", "{", "[">>
    /\ fixed = <<"{", "{", "[", "}", "}", "]">>
TierMatches(s, t) ==
    IF t = 1 THEN FenceMatches(s, 1, FenceJson)
    ELSE IF t = 2 THEN FenceMatches(s, 1, Fence)
    ELSE BraceMatches(s)

\* the tiers of s that have a match which is not empty once stripped
NonEmptyTiers(s, tiers) ==
    {t \in tiers : \E k \in 1..Len(TierMatches(s, t)) : Strip(TierMatches(s, t)[k]) # <<>>}

\* C15: the first tier that has a non-empty match supplies the candidate; a
\* tier whose matches are all empty does not stop the search
C15_FirstNonEmptyTierWins ==
    (impl \in Extractors /\ pc = "done")
        => LET T == NonEmptyTiers(raw, IF impl = "extract_json_from_markdown" THEN 1..2 ELSE 1..3)
           IN  T # {} => cand = Strip(Longest(TierMatches(raw, Min(T))))
\* C16: extract_json_from_response returns no candidate only when the raw
\* text holds no opening brace
C16_NoneOnlyWithoutBrace ==
    (impl = "extract_json_from_response" /\ pc = "done" /\ cand = NoneStr)
        => Find(raw, "{") = 0
\* the text holds the word, in any case
Mentions(s, word) ==
    \E i \in 1..(Len(s) - Len(word) + 1) :
        \A n \in 1..Len(word) : Lower(s[i + n - 1]) = word[n]

MentionsTable(s) == Mentions(s, W_table)
MentionsFigure(s) == Mentions(s, W_figure) \/ Mentions(s, W_chart) \/ Mentions(s, W_graph)

\* the one element the partial-data extractors synthesize
IsSynthesized(e, as_table) ==
    /\ e.k = "obj"
    /\ {K_type, K_bbox, K_confidence} \subseteq DOMAIN e.o
    /\ e.o[K_type] = JStr(IF as_table THEN W_table ELSE W_figure)
    /\ e.o[K_bbox] = JArr(<<JNum(0, 0), JNum(0, 0), JNum(600, 0), JNum(400, 0)>>)
    /\ e.o[K_confidence] = JNum(5, -1)

\* the partial-data extractor returned one synthesized element if found, and
\* no element otherwise; has_tables is the field of the returned record
PartialElements(found) ==
    /\ ElementsOf(result).k = "arr"
    /\ Len(ElementsOf(result).a) = (IF found THEN 1 ELSE 0)
    /\ found => IsSynthesized(ElementsOf(result).a[1],
                              AnalysisField(result, K_has_tables) = JBool(TRUE))
    /\ AnalysisField(result, K_has_tables) = JBool(MentionsTable(raw))

ElementsDegraded ==
    /\ ElementsOf(result).k = "arr"
    /\ \A n \in 1..Len(ElementsOf(result).a) :
          /\ ElementsOf(result).a[n].k = "obj"
          /\ K_confidence \in DOMAIN ElementsOf(result).a[n].o
          /\ ElementsOf(result).a[n].o[K_confidence] = JNum(5, -1)

\* C18 as claimed: every record returned without a parsed candidate has the
\* partial-recovery sentinel as its page_summary, on every path, and elements
\* of confidence 0.5 only
C18_SameSentinelEverywhere ==
    (pc = "done" /\ path \in FallbackPaths)
        => /\ AnalysisField(result, K_page_summary) = JStr(PartialSummary)
           /\ ElementsDegraded

\* C18: a record returned without a parsed candidate is marked: after a
\* partial extraction its page_summary is the partial-recovery sentinel and
\* its elements have confidence 0.5; when parse_vlm_json_response found no
\* candidate its page_summary is "Error: No JSON found in response" and it
\* has no elements.
C18_DegradedMarked ==
    (pc = "done" /\ path \in FallbackPaths)
        => /\ ElementsDegraded
           /\ IF path = "partial"
              THEN AnalysisField(result, K_page_summary) = JStr(PartialSummary)
              ELSE /\ impl = "vlm" /\ ~TruthyStr(cand)
                   /\ AnalysisField(result, K_page_summary)
                          = JStr(ErrorPrefix \o NoJsonMessage)
                   /\ ElementsOf(result) = JArr(<<>>)

C18_Witness ==
    /\ pc = "done" /\ impl = "vlm" /\ path = "error_fallback"
    /\ raw = ProsePlain
    /\ AnalysisField(result, K_page_summary) # JStr(PartialSummary)
\* the table elements of a page, in their order
TablesIn(page) == SelectSeq(ElementsOfPage(page), LAMBDA e : Get(e, "type", "None") = "table")

\* the record t holds what the element e has of description, confidence,
\* bbox, structured_data and raw_text
CopiedFrom(t, e) ==
    /\ \A key \in {"description", "confidence", "bbox"} \cap DOMAIN e : t[key] = e[key]
    /\ "content" \in DOMAIN e
          => \A key \in {"structured_data", "raw_text"} \cap DOMAIN e.content :
                t[key] = e.content[key]

\* C20: when extract_tables_from_visual has returned, every page that has
\* table elements is mapped by its page number to one record per table
\* element, in order, with the element's fields copied; a page without table
\* elements does not appear in the mapping; no table element is lost.
C20_TablesByPage ==
    (impl = "extract_tables_from_visual" /\ pc = "done")
        => \A i \in 1..Len(PagesOf(visual_data)) :
              LET page == PagesOf(visual_data)[i]
                  n == PageNumber(page)
              IN  IF TablesIn(page) = <<>>
                  THEN \/ n \notin DOMAIN tables_by_page
                       \/ \E j \in 1..Len(PagesOf(visual_data)) :
                             /\ PageNumber(PagesOf(visual_data)[j]) = n
                             /\ TablesIn(PagesOf(visual_data)[j]) # <<>>
                  ELSE /\ n \in DOMAIN tables_by_page
                       /\ \E a \in 0..Len(tables_by_page[n]) :
                             /\ a + Len(TablesIn(page)) <= Len(tables_by_page[n])
                             /\ \A k \in 1..Len(TablesIn(page)) :
                                   CopiedFrom(tables_by_page[n][a + k], TablesIn(page)[k])
\* the locals of a call of entry point i on r that runs alone, when it returns
RECURSIVE RunAlone(_)
RunAlone(st) == IF st.pc = "done" THEN st ELSE RunAlone(LocalStep(st))

HasTrailingComma(s) ==
    \E i \in 1..Len(s) : \E j \in (i + 1)..Len(s) :
        /\ s[i] = "," /\ s[j] \in {"}", "]"}
        /\ \A k \in (i + 1)..(j - 1) : IsReWs(s[k])

\* C22: the output of the trailing-comma fix holds no comma followed only by
\* whitespace and a closer, also when several commas precede the closer
C22_NoTrailingCommaLeft ==
    (impl = "trailing_commas" /\ pc = "done") => ~HasTrailingComma(fixed)
\* index i of s lies inside a double-quoted string: an odd number of double
\* quotes precedes it
InDoubleQuotes(s, i) ==
    s[i] # "\"" /\ Cardinality({j \in 1..(i - 1) : s[j] = "\""}) % 2 = 1

\* C23: the single-quote normalization leaves the text inside double-quoted
\* string values as it was; it rewrites single-quoted keys only
C23_ValuesUntouched ==
    (impl = "single_quotes" /\ pc = "done")
        => /\ Len(fixed) = Len(raw)
           /\ \A i \in 1..Len(raw) : InDoubleQuotes(raw, i) => fixed[i] = raw[i]

\* s with each newline that no backslash precedes replaced by a backslash
\* and the letter n
RECURSIVE NewlinesEscaped(_, _)
NewlinesEscaped(s, i) ==
    IF i > Len(s) THEN <<>>
    ELSE (IF s[i] = "\n" /\ (i = 1 \/ s[i - 1] # "\\") THEN <<"\\", "n">> ELSE <<s[i]>>)
         \o NewlinesEscaped(s, i + 1)

\* C24: the newline fix replaces each newline that no backslash precedes by
\* the two characters backslash and n, so no such newline is left
C24_NewlinesEscaped ==
    (impl = "newlines" /\ pc = "done") => fixed = NewlinesEscaped(raw, 1)
\* C25: in a record of the partial-data extractors total_elements is the
\* number of entries of elements, and an element of type figure is there only
\* if has_figures is true
C25_PartialRecordConsistent ==
    (impl \in PartialExtractors /\ pc = "done")
        => /\ ElementsOf(result).k = "arr"
           /\ AnalysisField(result, K_total_elements) = JNum(Len(ElementsOf(result).a), 0)
           /\ (\E n \in 1..Len(ElementsOf(result).a) :
                    ElementsOf(result).a[n].o[K_type] = JStr(W_figure))
                 => AnalysisField(result, K_has_figures) = JBool(TRUE)
\* C26: when the candidate is an object cut off where an array inside it is
\* still open (closing the array and then the object gives valid JSON), the
\* balanced string parses as JSON
C26_BalancedParses ==
    (/\ impl \in {"fix_incomplete_structures", "try_advanced_json_cleaning"}
     /\ pc = "done"
     /\ JsonLoads(raw \o <<"]", "}">>).ok)
        => JsonLoads(fixed).ok
\* C27: the two entry points agree: on the same raw text they return equal
\* records, and both return a parsed value or both a fallback record
C27_ImplementationsAgree ==
    \A c, d \in CallIds :
        (/\ calls[c].pc = "done" /\ calls[d].pc = "done"
         /\ calls[c].raw = calls[d].raw)
            => /\ calls[c].result = calls[d].result
               /\ (calls[c].path \in ParsedPaths) = (calls[d].path \in ParsedPaths)
\* C21: the data inject_tables_into_text returns has the fields of the text
\* data passed in, and each page has its fields and a tables field, the list
\* tables_by_page has for the page's number, or the empty list
C21_TablesInjected ==
    (impl = "inject_tables_into_text" /\ pc = "done")
        => LET out == Deref(enhanced_data, heap) IN
           /\ DOMAIN out = DOMAIN text_input
           /\ \A key \in DOMAIN out \ {"pages"} : out[key] = text_input[key]
           /\ Len(PagesOf(out)) = Len(PagesOf(text_input))
           /\ \A i \in 1..Len(PagesOf(out)) :
                 LET page == PagesOf(out)[i]
                     before == PagesOf(text_input)[i]
                     n == IF "page_number" \in DOMAIN before THEN before.page_number ELSE 0
                 IN  /\ DOMAIN page = DOMAIN before \cup {"tables"}
                     /\ \A key \in DOMAIN before \ {"tables"} : page[key] = before[key]
                     /\ page.tables = (IF n \in DOMAIN tables_by_page
                                       THEN tables_by_page[n] ELSE <<>>)

C21_Witness ==
    /\ impl = "inject_tables_into_text" /\ pc = "done"
    /\ Len(PagesOf(text_input)) = 2
    /\ 0 \in DOMAIN tables_by_page /\ 1 \notin DOMAIN tables_by_page
    /\ PagesOf(Deref(enhanced_data, heap))[1].tables = tables_by_page[0]
    /\ PagesOf(Deref(enhanced_data, heap))[2].tables = <<>>
    /\ PagesOf(text_input)[2].page_number = 1

\* C29: inject_tables_into_text leaves its argument as it was: when it has
\* returned, text_data and its pages are what was passed in
C29_ArgumentUnchanged ==
    (impl = "inject_tables_into_text" /\ pc = "done")
        => Deref(text_data, heap) = text_input
\* the pages the workers of which returned no error
PagesWithoutError ==
    {p \in DOMAIN futures : futures[p].state = "collected"
                            /\ futures[p].result.error = NoError}

RECURSIVE SumElementCounts(_)
SumElementCounts(pages) ==
    IF pages = <<>> THEN 0
    ELSE PyLen(Get(Head(pages)["detection_result"], "elements", JArr(<<>>)))
           + SumElementCounts(Tail(pages))

\* C28: whatever the order in which the workers of process_images_openai
\* complete, the result returned has its pages in ascending order of
\* page_number, holds exactly one record, the worker's own and never None,
\* for each page whose worker returned without error, has errors plus the
\* number of pages equal to total_pages, and has total_elements equal to the
\* sum of the element counts of the pages in the list.
C28_ResultIndependentOfOrder ==
    (impl = "process_images_openai" /\ pc = "done" /\ results # EmptyDict) =>
        LET pages == results["pages"]
        IN  /\ \A i \in 1..Len(pages) : "page_number" \in DOMAIN pages[i]
            /\ \A i, j \in 1..Len(pages) :
                  i < j => pages[i]["page_number"] < pages[j]["page_number"]
            /\ {pages[i]["page_number"] : i \in 1..Len(pages)} = PagesWithoutError
            /\ \A i \in 1..Len(pages) :
                  pages[i] = futures[pages[i]["page_number"]].result.page_result
            /\ results["errors"] + Len(pages) = results["total_pages"]
            /\ results["total_pages"] = Len(image_files)
            /\ results["total_elements"] = SumElementCounts(pages)

\* three pages, two workers; the worker of the second page completes before
\* the one of the first, the one of the third page fails, and two pages are
\* returned
C28_Witness ==
    /\ impl = "process_images_openai" /\ pc = "done"
    /\ options.max_workers = 2
    /\ log = <<<<"Found elements on page", 2, 2>>,
               <<"Found elements on page", 1, 1>>,
               <<"Error processing page", 0, 3>>>>
    /\ results["errors"] = 1 /\ results["total_elements"] = 3
    /\ Len(results["pages"]) = 2
\* the steps a run with these options has to do
Requested(step) == step # "markdown_export" \/ options.export_md

\* C30: when run_pdf_visual_extraction has returned, every requested step
\* that reads the output of a step the run executed was executed too, the
\* data handed to the summary report is not fresh text or detections next
\* to a stale final result, and with force no step was skipped.
C30_NoStaleDownstream ==
    (impl = "run_pdf_visual_extraction" /\ pc = "done") =>
        /\ \A step \in executed : \A later \in Consumers(step) :
              Requested(later) => later \in executed
        /\ final_data = "stale" => (text_data = "stale" /\ visual_data = "stale")
        /\ options.force => \A step \in Steps : ~skip_steps[step]
====
